---- MODULE Spec2Model ----
(***************************************************************************)
(* A model of elk, a userland ELF64 dynamic loader (src/src/process.rs,    *)
(* src/src/name.rs).  The state is the staged Process value: its Loader    *)
(* (search_path, objects, objects_by_path), its TLS record, the bytes of   *)
(* the address space the loader writes, and the phase the typestate is in. *)
(* Every public operation of Process<S> is one action.                     *)
(***************************************************************************)
EXTENDS Integers, Sequences, FiniteSets, TLC

VARIABLES
    disk,             \* file id -> parsed ELF content (what delf::File::parse yields)
    phase,            \* which Process<S> exists: the typestate S, or Started / Failed
    search_path,      \* Loader.search_path
    objects,          \* Loader.objects
    objects_by_path,  \* Loader.objects_by_path
    next_map,         \* lowest address the kernel hands out for the next mmap
    mem,              \* bytes stored since a page was mapped (address -> byte)
    tls,              \* the TLS record (offsets, block, tcb_addr) once allocated
    pages,            \* the kernel's page table: page number -> backing and protection
    cpu,              \* %fs base and instruction pointer once start has run
    last,             \* the last operation, its arguments and what it returned
    applied           \* the relocation records apply_relocations applied, in order

vars ==
    <<disk, phase, search_path, objects, objects_by_path, next_map, pages, mem,
      tls, cpu, last, applied>>

(***************************************************************************)
(* Bounds of the model.                                                    *)
(***************************************************************************)
\* The loading operations are enabled while the object list is shorter than this.
MaxObjects ==
    2

\* The loading operations are enabled while the search path is shorter
\* than this: a load that fails can still lengthen it.
MaxSearchPath ==
    3

\* The loading operations are enabled while fewer pages than this were
\* reserved: a load that fails keeps its reservation.
MaxMapPages ==
    12

\* The page of the first address the kernel hands out for a mapping.
MapStartPage ==
    16

\* The page of the heap allocation that holds the TLS block.
HeapPage ==
    4096

\* The page at whose start the stack pointer is when start calls jmp.
StackTopPage ==
    32768

(***************************************************************************)
(* Program constants.                                                      *)
(***************************************************************************)
\* The page mask 0xFFF of load_object, as a page size.
PageSize ==
    4096

\* tcbhead_size in allocate_tls.
TcbHeadSize ==
    704

\* AuxType::Null.
AtNull ==
    0

(***************************************************************************)
(* Small helpers on sequences and numbers.                                 *)
(***************************************************************************)
Min(a, b) ==
    IF a <= b THEN a ELSE b

Max(a, b) ==
    IF a >= b THEN a ELSE b

Range(s) ==
    {s[i] : i \in DOMAIN s}

RECURSIVE Flatten(_)
Flatten(ss) ==
    IF ss = <<>> THEN <<>> ELSE Head(ss) \o Flatten(Tail(ss))

\* The least index of s whose element satisfies p, 0 when there is none
\* (Iterator::find / Iterator::position).
FirstIndex(s, p(_)) ==
    IF \E i \in DOMAIN s : p(s[i])
    THEN CHOOSE i \in DOMAIN s : p(s[i]) /\ \A j \in 1..(i - 1) : ~p(s[j])
    ELSE 0

(***************************************************************************)
(* The file system the loader runs against.  A path is its sequence of     *)
(* components; an absolute path starts with the root component "/".        *)
(***************************************************************************)
Root ==
    <<"/">>

\* The one directory Process::new puts on the search path.
DefaultLibDir ==
    <<"/", "usr", "lib", "x86_64-linux-gnu">>

AppBin ==
    <<"/", "opt", "app", "bin">>

AppLib ==
    <<"/", "opt", "app", "lib">>

\* The working directory relative paths are resolved against.
Cwd ==
    <<"/", "opt", "app">>

Dirs ==
    {Root, <<"/", "usr">>, <<"/", "usr", "lib">>, DefaultLibDir,
     <<"/", "opt">>, <<"/", "opt", "app">>, AppBin, AppLib}

\* Regular files: canonical path -> file id.
FileAt ==
    (AppBin \o <<"prog">>) :> "prog"
    @@ (AppLib \o <<"libfoo.so.1">>) :> "foo"
    @@ (AppLib \o <<"libbaz.so">>) :> "baz"
    @@ (DefaultLibDir \o <<"libc.so.6">>) :> "libc"
    @@ (DefaultLibDir \o <<"libbar.so">>) :> "bar"
    @@ (DefaultLibDir \o <<"libfoo.so.1">>) :> "foosys"
    @@ (DefaultLibDir \o <<"junk.so">>) :> "junk"

\* Symbolic links: path -> absolute target.
Symlinks ==
    (AppLib \o <<"libfoo.so">>) :> (AppLib \o <<"libfoo.so.1">>)
    @@ (DefaultLibDir \o <<"libc.so">>) :> (DefaultLibDir \o <<"libc.so.6">>)

FileIds ==
    {FileAt[p] : p \in DOMAIN FileAt}

\* A Result / Option: Err(e) carries the error kind e (None for an Option),
\* Ok(v) the value.
Err(e) ==
    [ok |-> FALSE, val |-> [error |-> e]]

Ok(v) ==
    [ok |-> TRUE, val |-> v]

\* The value (), and the usize of an Ok(index).
Unit ==
    [unit |-> TRUE]

Index(i) ==
    [index |-> i]

\* A panic or a fault: the process ends instead of returning.
Fatal(res) ==
    ~res.ok /\ res.val.error \in {"panic", "SIGSEGV"}

\* Path::join: an absolute right-hand side replaces the left-hand side.
Join(prefix, name) ==
    IF name # <<>> /\ name[1] = "/" THEN name ELSE prefix \o name

\* Path::parent: None for the root (and for the empty path).
Parent(path) ==
    IF Len(path) <= 1 THEN Err("None") ELSE Ok(SubSeq(path, 1, Len(path) - 1))

\* realpath(3) as std::fs::canonicalize calls it: walk the components from
\* the root, follow symbolic links, pop on "..", and fail when a component
\* does not exist or a non-final component is no directory.
RECURSIVE Walk(_, _)
Walk(done, rest) ==
    IF rest = <<>> THEN Ok(done)
    ELSE
        LET c == Head(rest)
            p == Append(done, c)
        IN  IF c = "/" THEN Walk(Root, Tail(rest))
            ELSE IF c = ".." THEN
                Walk(IF Len(done) <= 1 THEN Root ELSE SubSeq(done, 1, Len(done) - 1),
                     Tail(rest))
            ELSE IF p \in DOMAIN Symlinks THEN Walk(Root, Tail(Symlinks[p]) \o Tail(rest))
            ELSE IF p \in Dirs THEN Walk(p, Tail(rest))
            ELSE IF p \in DOMAIN FileAt /\ Tail(rest) = <<>> THEN Ok(p)
            ELSE Err("ENOENT")

Canonicalize(path) ==
    IF path = <<>> THEN Err("ENOENT")
    ELSE IF path[1] = "/" THEN Walk(Root, Tail(path))
    ELSE Walk(Cwd, path)

(***************************************************************************)
(* ELF content, as delf::File exposes it.                                  *)
(***************************************************************************)
Ph(type, vaddr, offset, filesz, memsz, flags) ==
    [type |-> type, vaddr |-> vaddr, offset |-> offset, filesz |-> filesz,
     memsz |-> memsz, flags |-> flags]

Sym(name, bind, shndx, value, size) ==
    [name |-> name, bind |-> bind, shndx |-> shndx, value |-> value, size |-> size]

Rela(type, sym, offset, addend) ==
    [type |-> type, sym |-> sym, offset |-> offset, addend |-> addend]

\* SectionIndex::is_undef: SHN_UNDEF is section index 0.
IsUndef(shndx) ==
    shndx = 0

\* Where every file of the model keeps its dynamic string table, and where
\* its writable data starts (virtual address and file offset).
StrTabAddr ==
    32

DataAddr ==
    2 * PageSize

DataOffset ==
    1 * PageSize

\* The byte of file f at offset off: the string table at StrTabAddr, 40
\* bytes (161, 162, ...) at DataOffset, of which the first 32 are the data
\* segment's and the rest is what follows it in the file; 0 in the holes.
FileByte(f, off) ==
    IF off >= StrTabAddr /\ off < StrTabAddr + Len(disk[f].dynstr)
    THEN disk[f].dynstr[off - StrTabAddr + 1]
    ELSE IF off >= DataOffset /\ off < DataOffset + 40 THEN 161 + (off - DataOffset)
    ELSE 0

\* String::from_utf8_lossy on one path component: bytes that are not UTF-8
\* become U+FFFD, every other string is kept.
Utf8Lossy(c) ==
    IF c = "lib\\xFF.so" THEN "lib\\uFFFD.so" ELSE c

FromUtf8Lossy(s) ==
    [i \in DOMAIN s |-> Utf8Lossy(s[i])]

\* ProgramHeader::mem_range: vaddr .. vaddr + memsz.
PhMemRange(ph) ==
    <<ph.vaddr, ph.vaddr + ph.memsz>>

\* File::segment_of_type: the first program header of the type, if any.
SegmentOfType(f, type) ==
    LET i == FirstIndex(disk[f].phdrs, LAMBDA ph : ph.type = type)
    IN  IF i = 0 THEN Err("None") ELSE Ok(disk[f].phdrs[i])

(***************************************************************************)
(* The address space.  pages is the kernel's view (which file or anonymous *)
(* memory backs a page, with what protection); mem holds the bytes stored  *)
(* since the page was mapped.  An Addr is a number.                        *)
(***************************************************************************)
PageOf(a) ==
    a \div PageSize

\* x & !0xFFF
AlignLo(x) ==
    x - (x % PageSize)

\* The pages an mmap/mprotect of len bytes at addr touches.
PagesOf(addr, len) ==
    IF len = 0 THEN {} ELSE PageOf(addr)..PageOf(addr + len - 1)

Mapped(pg, a) ==
    PageOf(a) \in DOMAIN pg

\* The byte a load from address a sees.
ReadByte(pg, m, a) ==
    IF a \in DOMAIN m THEN m[a]
    ELSE LET p == pg[PageOf(a)]
         IN  IF p.file = "anon" THEN 0 ELSE FileByte(p.file, p.off + (a % PageSize))

\* Addr::as_slice: len bytes read at addr.
ReadBytes(pg, m, addr, len) ==
    [i \in 1..len |-> ReadByte(pg, m, addr + i - 1)]

\* Addr::write: bytes stored at addr.  mem keeps the bytes that differ
\* from what backs their page.
WriteBytes(pg, m, addr, bytes) ==
    LET new(a) == IF a >= addr /\ a < addr + Len(bytes) THEN bytes[a - addr + 1] ELSE m[a]
        keep == {a \in DOMAIN m \cup {addr + i - 1 : i \in DOMAIN bytes} :
                    new(a) # ReadByte(pg, <<>>, a)}
    IN  [a \in keep |-> new(a)]

\* to_le_bytes of a 64-bit value of magnitude below 2^31 (the model's
\* addresses stay there); a negative i64 is the complement of -v - 1.
ToLeBytes(v, n) ==
    [i \in 1..n |->
        IF v >= 0
        THEN (IF i <= 4 THEN (v \div (256 ^ (i - 1))) % 256 ELSE 0)
        ELSE (IF i <= 4 THEN 255 - ((((0 - v) - 1) \div (256 ^ (i - 1))) % 256) ELSE 255)]

\* The little-endian value of a byte sequence whose high bytes are zero.
RECURSIVE FromLeBytes(_)
FromLeBytes(bytes) ==
    IF bytes = <<>> THEN 0 ELSE Head(bytes) + 256 * FromLeBytes(Tail(bytes))

\* Addr::set::<u64>: a 64-bit little-endian store.
SetU64(pg, m, addr, v) ==
    WriteBytes(pg, m, addr, ToLeBytes(v, 8))

\* mmap(2) of len bytes at addr with MAP_FIXED (addr is page-aligned): the
\* pages are replaced, and what was stored in them is gone.
MmapPages(pg, addr, len, file, offset, pr) ==
    [n \in DOMAIN pg \cup PagesOf(addr, len) |->
        IF n \in PagesOf(addr, len)
        THEN [file |-> file, off |-> offset + (n - PageOf(addr)) * PageSize, prot |-> pr]
        ELSE pg[n]]

MmapMem(m, addr, len) ==
    [a \in {x \in DOMAIN m : PageOf(x) \notin PagesOf(addr, len)} |-> m[a]]

(***************************************************************************)
(* name.rs: a symbol name is a byte range of a mapping; it is compared and *)
(* hashed by the bytes found there.                                        *)
(***************************************************************************)
\* Name::mapped: the range from offset to the first NUL byte of the mapping
\* at or after it; the expect() panics when there is none.
NameMapped(pg, m, map, offset) ==
    LET nul == {k \in offset..(map.len - 1) : ReadByte(pg, m, map.addr + k) = 0}
    IN  IF nul = {} THEN Err("panic")
        ELSE Ok([map |-> map,
                 range |-> <<offset, CHOOSE k \in nul : \A j \in nul : k <= j>>])

\* Name::as_slice: the bytes of the mapping in the name's range.
NameAsSlice(pg, m, name) ==
    ReadBytes(pg, m, name.map.addr + name.range[1], name.range[2] - name.range[1])

\* impl PartialEq for Name: equal byte content.
NameEq(pg, m, a, b) ==
    NameAsSlice(pg, m, a) = NameAsSlice(pg, m, b)

(***************************************************************************)
(* Process<Loading>::load_object, over the loader state                    *)
(* L = [search_path, objects, objects_by_path, next_map, pages, mem].      *)
(***************************************************************************)
\* convex_hull of two ranges.
ConvexHull(a, b) ==
    <<Min(a[1], b[1]), Max(a[2], b[2])>>

\* The fold of convex_hull over the load segments' memory ranges.
RECURSIVE HullOf(_, _)
HullOf(acc, phs) ==
    IF phs = <<>> THEN acc
    ELSE HullOf(ConvexHull(acc, PhMemRange(Head(phs))), Tail(phs))

\* One RPATH / RUNPATH string with "$ORIGIN" replaced by the origin string:
\* a textual replacement, so the origin keeps its leading "/" only where
\* the string starts with it.
ExpandOrigin(entry, origin) ==
    Flatten([i \in DOMAIN entry |->
        IF entry[i] = "$ORIGIN"
        THEN (IF i = 1 THEN origin ELSE Tail(origin))
        ELSE <<entry[i]>>])

\* The closure as it would be did the Segment's range start at the header's
\* vaddr instead of at the page below it.
MapSegmentRangeFromVaddr(pg, m, f, base, ph) ==
    LET vaddr == AlignLo(ph.vaddr)
        padding == ph.vaddr - vaddr
        offset == ph.offset - padding
        filesz == ph.filesz + padding
        addr == base + vaddr
        pg1 == MmapPages(pg, addr, filesz, f, offset, {"READ", "WRITE", "EXECUTE"})
        m1 == MmapMem(m, addr, filesz)
        zero_start == base + ph.vaddr + ph.filesz
        zero_len == ph.memsz - ph.filesz
        m2 == IF ph.memsz > ph.filesz
              THEN WriteBytes(pg1, m1, zero_start, [i \in 1..zero_len |-> 0])
              ELSE m1
    IN  IF filesz = 0 \/ addr % PageSize # 0 \/ offset < 0 \/ offset % PageSize # 0
        THEN [ok |-> FALSE, pages |-> pg, mem |-> m, seg |-> <<>>]
        ELSE [ok |-> TRUE, pages |-> pg1, mem |-> m2,
              seg |-> [map |-> [addr |-> addr, len |-> filesz],
                       vaddr_range |-> <<ph.vaddr, ph.vaddr + ph.memsz>>,
                       padding |-> padding,
                       flags |-> ph.flags]]

\* The closure as it would be did it map filesz bytes, without the padding
\* that precedes them in the page.
MapSegmentWithoutPadding(pg, m, f, base, ph) ==
    LET vaddr == AlignLo(ph.vaddr)
        padding == ph.vaddr - vaddr
        offset == ph.offset - padding
        filesz == ph.filesz
        addr == base + vaddr
        pg1 == MmapPages(pg, addr, filesz, f, offset, {"READ", "WRITE", "EXECUTE"})
        m1 == MmapMem(m, addr, filesz)
        zero_start == base + ph.vaddr + ph.filesz
        zero_len == ph.memsz - ph.filesz
        m2 == IF ph.memsz > ph.filesz
              THEN WriteBytes(pg1, m1, zero_start, [i \in 1..zero_len |-> 0])
              ELSE m1
    IN  IF filesz = 0 \/ addr % PageSize # 0 \/ offset < 0 \/ offset % PageSize # 0
        THEN [ok |-> FALSE, pages |-> pg, mem |-> m, seg |-> <<>>]
        ELSE [ok |-> TRUE, pages |-> pg1, mem |-> m2,
              seg |-> [map |-> [addr |-> addr, len |-> filesz],
                       vaddr_range |-> <<vaddr, ph.vaddr + ph.memsz>>,
                       padding |-> padding,
                       flags |-> ph.flags]]

\* The closure that maps one load segment (lines 340-378): map the file at
\* the page-aligned address, zero the tail beyond filesz, build the Segment.
MapSegment(pg, m, f, base, ph) ==
    LET vaddr == AlignLo(ph.vaddr)
        padding == ph.vaddr - vaddr
        offset == ph.offset - padding
        filesz == ph.filesz + padding
        addr == base + vaddr
        pg1 == MmapPages(pg, addr, filesz, f, offset, {"READ", "WRITE", "EXECUTE"})
        m1 == MmapMem(m, addr, filesz)
        zero_start == base + ph.vaddr + ph.filesz
        zero_len == ph.memsz - ph.filesz
        m2 == IF ph.memsz > ph.filesz
              THEN WriteBytes(pg1, m1, zero_start, [i \in 1..zero_len |-> 0])
              ELSE m1
    IN  IF filesz = 0 \/ addr % PageSize # 0 \/ offset < 0 \/ offset % PageSize # 0
        THEN [ok |-> FALSE, pages |-> pg, mem |-> m, seg |-> <<>>]
        ELSE [ok |-> TRUE, pages |-> pg1, mem |-> m2,
              seg |-> [map |-> [addr |-> addr, len |-> filesz],
                       vaddr_range |-> <<vaddr, ph.vaddr + ph.memsz>>,
                       padding |-> padding,
                       flags |-> ph.flags]]

\* The segments of the load program headers with memsz > 0, in order; the
\* first mapping error ends the collection.
RECURSIVE MapSegments(_, _, _, _, _, _)
MapSegments(pg, m, f, base, phs, segs) ==
    IF phs = <<>> THEN [ok |-> TRUE, pages |-> pg, mem |-> m, segments |-> segs]
    ELSE LET r == MapSegment(pg, m, f, base, Head(phs))
         IN  IF ~r.ok THEN [ok |-> FALSE, pages |-> r.pages, mem |-> r.mem,
                            segments |-> segs]
             ELSE MapSegments(r.pages, r.mem, f, base, Tail(phs), Append(segs, r.seg))

\* The NamedSym list (lines 381-404): every dynamic symbol with its name
\* mapped from the segment that holds the string table.
NamedSyms(pg, m, elf, segments) ==
    LET syms == elf.dynsym.val
        si == FirstIndex(segments, LAMBDA seg :
                  elf.strtab.val >= seg.vaddr_range[1] /\ elf.strtab.val < seg.vaddr_range[2])
        names == [i \in DOMAIN syms |->
                    NameMapped(pg, m, segments[si].map,
                               elf.strtab.val + syms[i].name - segments[si].vaddr_range[1])]
    IN  IF syms = <<>> THEN Ok(<<>>)
        ELSE IF ~elf.strtab.ok \/ si = 0 THEN Err("panic")
        ELSE IF \E i \in DOMAIN syms : ~names[i].ok THEN Err("panic")
        ELSE Ok([i \in DOMAIN syms |-> [sym |-> syms[i], name |-> names[i].val]])

\* The MultiMap from name bytes to the symbols of that name, each key's
\* symbols in symbol-table order (lines 406-409).
SymMap(pg, m, syms) ==
    LET keys == {NameAsSlice(pg, m, syms[i].name) : i \in DOMAIN syms}
    IN  [k \in keys |-> SelectSeq(syms, LAMBDA s : NameAsSlice(pg, m, s.name) = k)]

\* How many bytes the kernel sets aside for a mapping of len bytes.
PageRound(len) ==
    ((len + PageSize - 1) \div PageSize) * PageSize

\* The push as it would be did it record the length after the push as the
\* index of the new object.
PushObjectIndexOffByOne(L, p, elf, mem_range, base, segments, syms) ==
    IF ~syms.ok THEN [L |-> L, res |-> Err("panic")]
    ELSE IF ~elf.rela.ok \/ ~elf.jmprel.ok THEN [L |-> L, res |-> Err("ReadRelaError")]
    ELSE [L |-> [L EXCEPT
                    !.objects = Append(L.objects,
                        [path |-> p, base |-> base, segments |-> segments,
                         mem_range |-> mem_range, file |-> FileAt[p], syms |-> syms.val,
                         sym_map |-> SymMap(L.pages, L.mem, syms.val),
                         rels |-> elf.rela.val \o elf.jmprel.val]),
                    !.objects_by_path = (p :> (Len(L.objects) + 1)) @@ L.objects_by_path],
          res |-> Ok(Len(L.objects))]

\* The push as it would be did it insert the new object at the front.
PushObjectAtFront(L, p, elf, mem_range, base, segments, syms) ==
    IF ~syms.ok THEN [L |-> L, res |-> Err("panic")]
    ELSE IF ~elf.rela.ok \/ ~elf.jmprel.ok THEN [L |-> L, res |-> Err("ReadRelaError")]
    ELSE [L |-> [L EXCEPT
                    !.objects = <<[path |-> p, base |-> base, segments |-> segments,
                                   mem_range |-> mem_range, file |-> FileAt[p],
                                   syms |-> syms.val,
                                   sym_map |-> SymMap(L.pages, L.mem, syms.val),
                                   rels |-> elf.rela.val \o elf.jmprel.val]>> \o L.objects,
                    !.objects_by_path = (p :> 0) @@
                        [q \in DOMAIN L.objects_by_path |-> L.objects_by_path[q] + 1]],
          res |-> Ok(0)]

\* load_object, lines 406-438: the symbol map, the relocation records and
\* the push of the new Object.
PushObject(L, p, elf, mem_range, base, segments, syms) ==
    IF ~syms.ok THEN [L |-> L, res |-> Err("panic")]
    ELSE IF ~elf.rela.ok \/ ~elf.jmprel.ok THEN [L |-> L, res |-> Err("ReadRelaError")]
    ELSE [L |-> [L EXCEPT
                    !.objects = Append(L.objects,
                        [path |-> p,
                         base |-> base,
                         segments |-> segments,
                         mem_range |-> mem_range,
                         file |-> FileAt[p],
                         syms |-> syms.val,
                         sym_map |-> SymMap(L.pages, L.mem, syms.val),
                         rels |-> elf.rela.val \o elf.jmprel.val]),
                    !.objects_by_path = (p :> Len(L.objects)) @@ L.objects_by_path],
          res |-> Ok(Len(L.objects))]

\* load_object, lines 379-404: the segments are mapped (or one failed);
\* read the dynamic symbols and map their names.
ReadSyms(L, p, elf, mem_range, base, sg) ==
    IF ~sg.ok THEN [L |-> [L EXCEPT !.pages = sg.pages, !.mem = sg.mem], res |-> Err("MapError")]
    ELSE IF ~elf.dynsym.ok
    THEN [L |-> [L EXCEPT !.pages = sg.pages, !.mem = sg.mem], res |-> Err("ReadSymsError")]
    ELSE PushObject([L EXCEPT !.pages = sg.pages, !.mem = sg.mem], p, elf, mem_range, base,
                    sg.segments, NamedSyms(sg.pages, sg.mem, elf, sg.segments))

\* load_object, lines 330-379: reserve the convex hull at an address the
\* kernel chooses, which fixes the base, and map the segments into it.
Reserve(L, p, elf, loads, mem_range) ==
    IF mem_range[2] - mem_range[1] = 0 THEN [L |-> L, res |-> Err("MapError")]
    ELSE ReadSyms([L EXCEPT !.next_map = L.next_map + PageRound(mem_range[2] - mem_range[1]),
                            !.pages = MmapPages(L.pages, L.next_map, mem_range[2] - mem_range[1],
                                                "anon", 0, {"READ", "WRITE"})],
                  p, elf, mem_range, L.next_map - mem_range[1],
                  MapSegments(MmapPages(L.pages, L.next_map, mem_range[2] - mem_range[1],
                                        "anon", 0, {"READ", "WRITE"}),
                              L.mem, FileAt[p], L.next_map - mem_range[1],
                              SelectSeq(loads, LAMBDA ph : ph.memsz > 0), <<>>))

\* load_object, lines 302-328: the RPATH and RUNPATH entries join the
\* search path, then the load segments' hull is taken.
ExtendSearchPath(L, p, elf, origin, loads) ==
    IF ~origin.ok THEN [L |-> L, res |-> Err("InvalidPath")]
    ELSE IF loads = <<>>
    THEN [L |-> [L EXCEPT !.search_path = L.search_path \o
                    [i \in DOMAIN (elf.rpath \o elf.runpath) |->
                        ExpandOrigin(FromUtf8Lossy((elf.rpath \o elf.runpath)[i]), origin.val)]],
          res |-> Err("NoLoadSegments")]
    ELSE Reserve([L EXCEPT !.search_path = L.search_path \o
                    [i \in DOMAIN (elf.rpath \o elf.runpath) |->
                        ExpandOrigin(FromUtf8Lossy((elf.rpath \o elf.runpath)[i]), origin.val)]],
                 p, elf, loads, HullOf(PhMemRange(loads[1]), Tail(loads)))

\* load_object, lines 290-300: read the file at the canonical path and
\* parse it.
ReadAndParse(L, canon) ==
    IF ~canon.ok THEN [L |-> L, res |-> Err("IO")]
    ELSE IF canon.val \notin DOMAIN FileAt THEN [L |-> L, res |-> Err("IO")]
    ELSE IF ~disk[FileAt[canon.val]].parse_ok THEN [L |-> L, res |-> Err("ParseError")]
    ELSE ExtendSearchPath(L, canon.val, disk[FileAt[canon.val]], Parent(canon.val),
                          SelectSeq(disk[FileAt[canon.val]].phdrs, LAMBDA ph : ph.type = "Load"))

\* Process<Loading>::load_object.
LoadObject(L, path) ==
    ReadAndParse(L, Canonicalize(path))

\* Process<Loading>::object_path: the first search-path prefix under which
\* the name canonicalizes (to a path that exists).
ObjectPath(L, name) ==
    LET found == SelectSeq([i \in DOMAIN L.search_path |->
                               Canonicalize(Join(L.search_path[i], name))],
                           LAMBDA r : r.ok)
    IN  IF found = <<>> THEN Err("NotFound") ELSE Ok(found[1].val)

\* GetResult::Fresh around what load_object returned.
AsFresh(loaded) ==
    IF loaded.res.ok
    THEN [L |-> loaded.L, res |-> Ok([kind |-> "Fresh", index |-> loaded.res.val])]
    ELSE loaded

\* The keys of the path index with the file name of the path.
SameFileName(L, p) ==
    {q \in DOMAIN L.objects_by_path : q[Len(q)] = p[Len(p)]}

\* get_object as it would be did the path index go by the file name, not
\* by the whole canonical path.
GetObjectAtByFileName(L, path) ==
    IF ~path.ok THEN [L |-> L, res |-> path]
    ELSE IF SameFileName(L, path.val) # {}
    THEN [L |-> L, res |-> Ok([kind |-> "Cached",
                                index |-> L.objects_by_path[
                                    CHOOSE q \in SameFileName(L, path.val) : TRUE]])]
    ELSE AsFresh(LoadObject(L, path.val))

\* get_object as it would be did it take the index 0 in the path index
\* for no entry.
GetObjectAtMissesIndexZero(L, path) ==
    IF ~path.ok THEN [L |-> L, res |-> path]
    ELSE IF path.val \in DOMAIN L.objects_by_path /\ L.objects_by_path[path.val] # 0
    THEN [L |-> L, res |-> Ok([kind |-> "Cached", index |-> L.objects_by_path[path.val]])]
    ELSE AsFresh(LoadObject(L, path.val))

\* The body of get_object once the name is resolved.
GetObjectAt(L, path) ==
    IF ~path.ok THEN [L |-> L, res |-> path]
    ELSE IF path.val \in DOMAIN L.objects_by_path
    THEN [L |-> L, res |-> Ok([kind |-> "Cached", index |-> L.objects_by_path[path.val]])]
    ELSE AsFresh(LoadObject(L, path.val))

\* Process<Loading>::get_object.
GetObject(L, name) ==
    GetObjectAt(L, ObjectPath(L, name))

\* The DT_NEEDED strings as a loop would collect them that walks the
\* objects and their entries from the last to the first.
NeededOfReversed(L, a) ==
    Flatten([k \in DOMAIN a |->
        [j \in DOMAIN disk[L.objects[a[Len(a) + 1 - k] + 1].file].needed |->
            FromUtf8Lossy(disk[L.objects[a[Len(a) + 1 - k] + 1].file].needed[
                Len(disk[L.objects[a[Len(a) + 1 - k] + 1].file].needed) + 1 - j])]])

\* The DT_NEEDED strings of the objects at the indices a, in order, each
\* through String::from_utf8_lossy.
NeededOf(L, a) ==
    Flatten([k \in DOMAIN a |->
        [j \in DOMAIN disk[L.objects[a[k] + 1].file].needed |->
            FromUtf8Lossy(disk[L.objects[a[k] + 1].file].needed[j])]])

\* One level of load_object_and_dependencies: get_object on each name in
\* order, stopping at the first error, keeping the Fresh indices; then the
\* next level, until a level has no Fresh index.
RECURSIVE GetObjects(_, _, _)
RECURSIVE LoadLevels(_, _)
\* The level's loop as it would be did it forget the Fresh indices.
AfterGetObjectForgetsFresh(r, names, fresh) ==
    IF ~r.res.ok THEN r
    ELSE GetObjects(r.L, names, fresh)

AfterGetObject(r, names, fresh) ==
    IF ~r.res.ok THEN r
    ELSE GetObjects(r.L, names,
                    IF r.res.val.kind = "Fresh" THEN Append(fresh, r.res.val.index) ELSE fresh)

GetObjects(L, names, fresh) ==
    IF names = <<>> THEN LoadLevels(L, fresh)
    ELSE AfterGetObject(GetObject(L, Head(names)), Tail(names), fresh)

\* The while loop of load_object_and_dependencies.
LoadLevels(L, a) ==
    IF a = <<>> THEN [L |-> L, res |-> Ok(<<>>)]
    ELSE GetObjects(L, NeededOf(L, a), <<>>)

\* The root is loaded (or not); its index is what the call returns.
AfterRoot(root, rest) ==
    IF ~root.res.ok THEN root
    ELSE IF ~rest.res.ok THEN rest
    ELSE [L |-> rest.L, res |-> root.res]

LoadDependenciesOf(root) ==
    AfterRoot(root, IF root.res.ok THEN LoadLevels(root.L, <<root.res.val>>) ELSE root)

\* Process<Loading>::load_object_and_dependencies.
LoadObjectAndDependencies(L, path) ==
    LoadDependenciesOf(LoadObject(L, path))

(***************************************************************************)
(* Symbol lookup and relocation.                                           *)
(***************************************************************************)
Undefined ==
    [defined |-> FALSE, obj |-> 0 - 1, sym |-> <<>>]

Defined(obj, sym) ==
    [defined |-> TRUE, obj |-> obj, sym |-> sym]

\* lookup_symbol as it would be did Name compare the offsets into the string
\* table instead of the bytes there.
LookupSymbolByOffset(objs, pg, m, wanted, ignore_self) ==
    LET defs(i) == SelectSeq(objs[i].syms,
                      LAMBDA s : s.sym.name = wanted.sym.sym.name /\ ~IsUndef(s.sym.shndx))
        hits == {i \in DOMAIN objs :
                    ~(ignore_self /\ wanted.obj = i - 1) /\ defs(i) # <<>>}
    IN  IF hits = {} THEN Undefined
        ELSE LET i == CHOOSE i \in hits : \A j \in hits : i <= j
             IN  Defined(i - 1, defs(i)[1])

\* Process::lookup_symbol.  wanted = [obj, sym]: an object index (the
\* identity std::ptr::eq compares) and a NamedSym of that object.
LookupSymbol(objs, pg, m, wanted, ignore_self) ==
    LET key == NameAsSlice(pg, m, wanted.sym.name)
        defs(i) == IF key \in DOMAIN objs[i].sym_map
                   THEN SelectSeq(objs[i].sym_map[key], LAMBDA s : ~IsUndef(s.sym.shndx))
                   ELSE <<>>
        hits == {i \in DOMAIN objs :
                    ~(ignore_self /\ wanted.obj = i - 1) /\ defs(i) # <<>>}
    IN  IF hits = {} THEN Undefined
        ELSE LET i == CHOOSE i \in hits : \A j \in hits : i <= j
             IN  Defined(i - 1, defs(i)[1])

\* ResolvedSym::value.
ResolvedValue(objs, found) ==
    IF found.defined THEN objs[found.obj + 1].base + found.sym.sym.value ELSE 0

\* ResolvedSym::size.
ResolvedSize(found) ==
    IF found.defined THEN found.sym.sym.size ELSE 0

\* Whether a store of len bytes at addr stays in mapped pages.
CanWrite(pg, addr, len) ==
    \A a \in addr..(addr + len - 1) : Mapped(pg, a)

\* The resolution as it would be did no relocation type ignore its object.
FoundForNeverIgnoresSelf(objs, pg, m, o, rel) ==
    LET wanted == [obj |-> o, sym |-> objs[o + 1].syms[rel.sym + 1]]
        looked == LookupSymbol(objs, pg, m, wanted, FALSE)
    IN  IF rel.sym = 0 THEN Ok(Undefined)
        ELSE IF looked.defined THEN Ok(looked)
        ELSE IF wanted.sym.sym.bind = "Weak" THEN Ok(looked)
        ELSE Err("UndefinedSymbol")

\* The resolution as it would be did it not look at the binding.
FoundForWeakIsError(objs, pg, m, o, rel) ==
    LET wanted == [obj |-> o, sym |-> objs[o + 1].syms[rel.sym + 1]]
        ignore_self == (rel.type = "Copy")
        looked == LookupSymbol(objs, pg, m, wanted, ignore_self)
    IN  IF rel.sym = 0 THEN Ok(Undefined)
        ELSE IF looked.defined THEN Ok(looked)
        ELSE Err("UndefinedSymbol")

\* The resolution as it would be did it let every undefined symbol pass.
FoundForUndefinedIsFine(objs, pg, m, o, rel) ==
    LET wanted == [obj |-> o, sym |-> objs[o + 1].syms[rel.sym + 1]]
        ignore_self == (rel.type = "Copy")
        looked == LookupSymbol(objs, pg, m, wanted, ignore_self)
    IN  IF rel.sym = 0 THEN Ok(Undefined) ELSE Ok(looked)

\* The symbol resolution of apply_relocation (lines 565-578).
FoundFor(objs, pg, m, o, rel) ==
    LET wanted == [obj |-> o, sym |-> objs[o + 1].syms[rel.sym + 1]]
        ignore_self == (rel.type = "Copy")
        looked == LookupSymbol(objs, pg, m, wanted, ignore_self)
    IN  IF rel.sym = 0 THEN Ok(Undefined)
        ELSE IF looked.defined THEN Ok(looked)
        ELSE IF wanted.sym.sym.bind = "Weak" THEN Ok(looked)
        ELSE Err("UndefinedSymbol")

\* The match as it would be did a Relative record store the addend alone.
StoreForRelativeWithoutBase(objs, pg, m, t, o, rel, found) ==
    LET obj == objs[o + 1]
        addr == obj.base + rel.offset
        value == ResolvedValue(objs, found)
    IN  CASE rel.type = "_64" -> Ok(<<addr, ToLeBytes(value + rel.addend, 8)>>)
          [] rel.type = "Relative" -> Ok(<<addr, ToLeBytes(rel.addend, 8)>>)
          [] rel.type = "IRelative" ->
                IF rel.addend \in DOMAIN disk[obj.file].ifuncs
                THEN Ok(<<addr, ToLeBytes(obj.base + disk[obj.file].ifuncs[rel.addend], 8)>>)
                ELSE Err("SIGSEGV")
          [] rel.type = "Copy" ->
                IF found.defined /\ ~CanWrite(pg, value, ResolvedSize(found))
                THEN Err("SIGSEGV")
                ELSE Ok(<<addr, ReadBytes(pg, m, value, ResolvedSize(found))>>)
          [] rel.type \in {"GlobDat", "JumpSlot"} -> Ok(<<addr, ToLeBytes(value, 8)>>)
          [] rel.type = "TPOff64" ->
                IF ~found.defined THEN Ok(<<>>)
                ELSE IF objs[found.obj + 1].base \notin DOMAIN t.offsets THEN Err("panic")
                ELSE Ok(<<addr, ToLeBytes((0 - t.offsets[objs[found.obj + 1].base])
                                          + found.sym.sym.value + rel.addend, 8)>>)
          [] rel.type = "DTPMOD64" -> Ok(<<>>)
          [] OTHER -> Err("UnimplementedRelocation")

\* The match as it would be did a _64 record store the value of the symbol
\* without the addend.
StoreForValueWithoutAddend(objs, pg, m, t, o, rel, found) ==
    LET obj == objs[o + 1]
        addr == obj.base + rel.offset
        value == ResolvedValue(objs, found)
    IN  CASE rel.type = "_64" -> Ok(<<addr, ToLeBytes(value, 8)>>)
          [] rel.type = "Relative" -> Ok(<<addr, ToLeBytes(obj.base + rel.addend, 8)>>)
          [] rel.type = "IRelative" ->
                IF rel.addend \in DOMAIN disk[obj.file].ifuncs
                THEN Ok(<<addr, ToLeBytes(obj.base + disk[obj.file].ifuncs[rel.addend], 8)>>)
                ELSE Err("SIGSEGV")
          [] rel.type = "Copy" ->
                IF found.defined /\ ~CanWrite(pg, value, ResolvedSize(found))
                THEN Err("SIGSEGV")
                ELSE Ok(<<addr, ReadBytes(pg, m, value, ResolvedSize(found))>>)
          [] rel.type \in {"GlobDat", "JumpSlot"} -> Ok(<<addr, ToLeBytes(value, 8)>>)
          [] rel.type = "TPOff64" ->
                IF ~found.defined THEN Ok(<<>>)
                ELSE IF objs[found.obj + 1].base \notin DOMAIN t.offsets THEN Err("panic")
                ELSE Ok(<<addr, ToLeBytes((0 - t.offsets[objs[found.obj + 1].base])
                                          + found.sym.sym.value + rel.addend, 8)>>)
          [] rel.type = "DTPMOD64" -> Ok(<<>>)
          [] OTHER -> Err("UnimplementedRelocation")

\* The match as it would be did a Copy record copy the st_size of the
\* symbol wanted, not of the definition found.
StoreForCopyWantedSize(objs, pg, m, t, o, rel, found) ==
    LET obj == objs[o + 1]
        addr == obj.base + rel.offset
        value == ResolvedValue(objs, found)
    IN  CASE rel.type = "_64" -> Ok(<<addr, ToLeBytes(value + rel.addend, 8)>>)
          [] rel.type = "Relative" -> Ok(<<addr, ToLeBytes(obj.base + rel.addend, 8)>>)
          [] rel.type = "IRelative" ->
                IF rel.addend \in DOMAIN disk[obj.file].ifuncs
                THEN Ok(<<addr, ToLeBytes(obj.base + disk[obj.file].ifuncs[rel.addend], 8)>>)
                ELSE Err("SIGSEGV")
          [] rel.type = "Copy" ->
                IF ~CanWrite(pg, value, objs[o + 1].syms[rel.sym + 1].sym.size)
                THEN Err("SIGSEGV")
                ELSE Ok(<<addr, ReadBytes(pg, m, value, objs[o + 1].syms[rel.sym + 1].sym.size)>>)
          [] rel.type \in {"GlobDat", "JumpSlot"} -> Ok(<<addr, ToLeBytes(value, 8)>>)
          [] rel.type = "TPOff64" ->
                IF ~found.defined THEN Ok(<<>>)
                ELSE IF objs[found.obj + 1].base \notin DOMAIN t.offsets THEN Err("panic")
                ELSE Ok(<<addr, ToLeBytes((0 - t.offsets[objs[found.obj + 1].base])
                                          + found.sym.sym.value + rel.addend, 8)>>)
          [] rel.type = "DTPMOD64" -> Ok(<<>>)
          [] OTHER -> Err("UnimplementedRelocation")

\* The match as it would be did a TPOff64 record add the TLS offset of the
\* defining object where the code subtracts it.
StoreForTpoffAdded(objs, pg, m, t, o, rel, found) ==
    LET obj == objs[o + 1]
        addr == obj.base + rel.offset
        value == ResolvedValue(objs, found)
    IN  CASE rel.type = "_64" -> Ok(<<addr, ToLeBytes(value + rel.addend, 8)>>)
          [] rel.type = "Relative" -> Ok(<<addr, ToLeBytes(obj.base + rel.addend, 8)>>)
          [] rel.type = "IRelative" ->
                IF rel.addend \in DOMAIN disk[obj.file].ifuncs
                THEN Ok(<<addr, ToLeBytes(obj.base + disk[obj.file].ifuncs[rel.addend], 8)>>)
                ELSE Err("SIGSEGV")
          [] rel.type = "Copy" ->
                IF found.defined /\ ~CanWrite(pg, value, ResolvedSize(found))
                THEN Err("SIGSEGV")
                ELSE Ok(<<addr, ReadBytes(pg, m, value, ResolvedSize(found))>>)
          [] rel.type \in {"GlobDat", "JumpSlot"} -> Ok(<<addr, ToLeBytes(value, 8)>>)
          [] rel.type = "TPOff64" ->
                IF ~found.defined THEN Ok(<<>>)
                ELSE IF objs[found.obj + 1].base \notin DOMAIN t.offsets THEN Err("panic")
                ELSE Ok(<<addr, ToLeBytes(t.offsets[objs[found.obj + 1].base]
                                          + found.sym.sym.value + rel.addend, 8)>>)
          [] rel.type = "DTPMOD64" -> Ok(<<>>)
          [] OTHER -> Err("UnimplementedRelocation")

\* What the match on the relocation type stores (lines 580-640):
\* Ok(<<addr, bytes>>), Ok(<<>>) when nothing is stored, or the error.
StoreFor(objs, pg, m, t, o, rel, found) ==
    LET obj == objs[o + 1]
        addr == obj.base + rel.offset
        value == ResolvedValue(objs, found)
    IN  CASE rel.type = "_64" -> Ok(<<addr, ToLeBytes(value + rel.addend, 8)>>)
          [] rel.type = "Relative" -> Ok(<<addr, ToLeBytes(obj.base + rel.addend, 8)>>)
          [] rel.type = "IRelative" ->
                IF rel.addend \in DOMAIN disk[obj.file].ifuncs
                THEN Ok(<<addr, ToLeBytes(obj.base + disk[obj.file].ifuncs[rel.addend], 8)>>)
                ELSE Err("SIGSEGV")
          [] rel.type = "Copy" ->
                IF found.defined /\ ~CanWrite(pg, value, ResolvedSize(found))
                THEN Err("SIGSEGV")
                ELSE Ok(<<addr, ReadBytes(pg, m, value, ResolvedSize(found))>>)
          [] rel.type \in {"GlobDat", "JumpSlot"} -> Ok(<<addr, ToLeBytes(value, 8)>>)
          [] rel.type = "TPOff64" ->
                IF ~found.defined THEN Ok(<<>>)
                ELSE IF objs[found.obj + 1].base \notin DOMAIN t.offsets THEN Err("panic")
                ELSE Ok(<<addr, ToLeBytes((0 - t.offsets[objs[found.obj + 1].base])
                                          + found.sym.sym.value + rel.addend, 8)>>)
          [] rel.type = "DTPMOD64" -> Ok(<<>>)
          [] OTHER -> Err("UnimplementedRelocation")

\* The store of one record, if it has one, and its entry in the log.
Stored(pg, m, o, k, found, store) ==
    IF ~store.ok THEN [res |-> store, mem |-> m, log |-> <<>>]
    ELSE IF store.val = <<>>
    THEN [res |-> Ok(Unit), mem |-> m,
          log |-> <<[obj |-> o, rel |-> k, found |-> found, store |-> <<>>]>>]
    ELSE IF ~CanWrite(pg, store.val[1], Len(store.val[2]))
    THEN [res |-> Err("SIGSEGV"), mem |-> m, log |-> <<>>]
    ELSE [res |-> Ok(Unit), mem |-> WriteBytes(pg, m, store.val[1], store.val[2]),
          log |-> <<[obj |-> o, rel |-> k, found |-> found, store |-> store.val]>>]

Resolved(objs, pg, m, t, o, k, rel, found) ==
    IF ~found.ok THEN [res |-> found, mem |-> m, log |-> <<>>]
    ELSE Stored(pg, m, o, k, found.val, StoreFor(objs, pg, m, t, o, rel, found.val))

\* Process<TLSAllocated>::apply_relocation on record k of object o: the
\* memory after it and the entry it adds to the log.  Indexing obj.syms
\* with a symbol number past its end panics.
ApplyRelocation(objs, pg, m, t, o, k) ==
    IF objs[o + 1].rels[k].sym >= Len(objs[o + 1].syms)
    THEN [res |-> Err("panic"), mem |-> m, log |-> <<>>]
    ELSE Resolved(objs, pg, m, t, o, k, objs[o + 1].rels[k],
                  FoundFor(objs, pg, m, o, objs[o + 1].rels[k]))

\* The records visited with the objects in load order, not reversed.
RelocationOrderForward(objs) ==
    Flatten([j \in DOMAIN objs |->
        [k \in DOMAIN objs[j].rels |-> <<j - 1, k>>]])

\* The order apply_relocations visits the records in: objects in reverse,
\* each object's records in list order.  Each entry is <<object, record>>.
RelocationOrder(objs) ==
    Flatten([j \in DOMAIN objs |->
        [k \in DOMAIN objs[Len(objs) + 1 - j].rels |-> <<Len(objs) - j, k>>]])

\* The for loop of apply_relocations: stop at the first error.
RECURSIVE ApplyAll(_, _, _, _, _, _)
AfterRelocation(objs, pg, t, todo, log, r) ==
    IF ~r.res.ok THEN [res |-> r.res, mem |-> r.mem, log |-> log]
    ELSE ApplyAll(objs, pg, r.mem, t, todo, log \o r.log)

ApplyAll(objs, pg, m, t, todo, log) ==
    IF todo = <<>> THEN [res |-> Ok(Unit), mem |-> m, log |-> log]
    ELSE AfterRelocation(objs, pg, t, Tail(todo), log,
                         ApplyRelocation(objs, pg, m, t, Head(todo)[1], Head(todo)[2]))

\* Process<TLSAllocated>::apply_relocations.
ApplyRelocations(objs, pg, m, t) ==
    ApplyAll(objs, pg, m, t, RelocationOrder(objs), <<>>)

(***************************************************************************)
(* Thread-local storage.                                                   *)
(***************************************************************************)
NoTls ==
    [offsets |-> <<>>, block |-> [ptr |-> 0, len |-> 0], tcb_addr |-> 0]

\* The memsz of the object's PT_TLS segment, 0 without one (lines 455-459).
TlsNeeded(obj) ==
    IF SegmentOfType(obj.file, "TLS").ok THEN SegmentOfType(obj.file, "TLS").val.memsz ELSE 0

\* The loop of allocate_tls as it would be did it measure every offset from
\* the TCB instead of from the cursor.
RECURSIVE TlsSlotsFromTcb(_, _)
TlsSlotsFromTcb(objs, acc) ==
    IF objs = <<>> THEN acc
    ELSE LET needed == TlsNeeded(Head(objs))
         IN  IF needed > 0
             THEN TlsSlotsFromTcb(Tail(objs),
                      [offsets |-> (Head(objs).base :> needed) @@ acc.offsets,
                       storage_space |-> acc.storage_space + needed])
             ELSE TlsSlotsFromTcb(Tail(objs), acc)

\* The loop of allocate_tls as it would be did it record the cursor before
\* advancing it.
RECURSIVE TlsSlotsCursorBefore(_, _)
TlsSlotsCursorBefore(objs, acc) ==
    IF objs = <<>> THEN acc
    ELSE LET needed == TlsNeeded(Head(objs))
         IN  IF needed > 0
             THEN TlsSlotsCursorBefore(Tail(objs),
                      [offsets |-> (Head(objs).base :> acc.storage_space) @@ acc.offsets,
                       storage_space |-> acc.storage_space + needed])
             ELSE TlsSlotsCursorBefore(Tail(objs), acc)

\* The loop of allocate_tls over the objects (lines 454-466):
\* acc = [offsets, storage_space].
RECURSIVE TlsSlots(_, _)
TlsSlots(objs, acc) ==
    IF objs = <<>> THEN acc
    ELSE LET needed == TlsNeeded(Head(objs))
         IN  IF needed > 0
             THEN TlsSlots(Tail(objs),
                      [offsets |-> (Head(objs).base :> (acc.storage_space + needed))
                                   @@ acc.offsets,
                       storage_space |-> acc.storage_space + needed])
             ELSE TlsSlots(Tail(objs), acc)

\* The "somewhat fake" tcbhead: tcb, dtv, thread pointer, multiple_threads,
\* gscope_flag, sysinfo, stack guard 0xDEADBEEF, pointer guard 0xFEEDFACE.
TcbHead(tcb_addr) ==
    ToLeBytes(tcb_addr, 8) \o ToLeBytes(0, 8) \o ToLeBytes(tcb_addr, 8)
    \o ToLeBytes(0, 4) \o ToLeBytes(0, 4) \o ToLeBytes(0, 8)
    \o <<239, 190, 173, 222, 0, 0, 0, 0>> \o <<206, 250, 237, 254, 0, 0, 0, 0>>

\* allocate_tls with the TCB at the start of the block, before the storage.
AllocateTlsOpTcbAtStart(objs, ptr) ==
    LET slots == TlsSlots(objs, [offsets |-> <<>>, storage_space |-> 0])
        storage_space == slots.storage_space
        total_size == storage_space + TcbHeadSize
        tcb_addr == ptr
        head == TcbHead(tcb_addr)
    IN  [tls |-> [offsets |-> slots.offsets,
                  block |-> [ptr |-> ptr, len |-> total_size],
                  tcb_addr |-> tcb_addr],
         bytes |-> [i \in 1..total_size |->
                      IF i <= Len(head) THEN head[i] ELSE 0]]

\* Process<Loading>::allocate_tls: the TLS record and the block's bytes.
AllocateTlsOp(objs, ptr) ==
    LET slots == TlsSlots(objs, [offsets |-> <<>>, storage_space |-> 0])
        storage_space == slots.storage_space
        total_size == storage_space + TcbHeadSize
        tcb_addr == ptr + storage_space
        head == TcbHead(tcb_addr)
    IN  [tls |-> [offsets |-> slots.offsets,
                  block |-> [ptr |-> ptr, len |-> total_size],
                  tcb_addr |-> tcb_addr],
         bytes |-> [i \in 1..total_size |->
                      IF i > storage_space /\ i <= storage_space + Len(head)
                      THEN head[i - storage_space] ELSE 0]]

\* The loop of initialize_tls: copy each TLS template below the TCB.
RECURSIVE InitializeTlsOp(_, _, _, _)
InitializeTlsOp(objs, pg, m, t) ==
    IF objs = <<>> THEN [res |-> Ok(Unit), mem |-> m]
    ELSE LET obj == Head(objs)
             ph == SegmentOfType(obj.file, "TLS")
             dst == t.tcb_addr - t.offsets[obj.base]
             src == ph.val.vaddr + obj.base
         IN  IF ~ph.ok \/ obj.base \notin DOMAIN t.offsets
             THEN InitializeTlsOp(Tail(objs), pg, m, t)
             ELSE IF ~CanWrite(pg, src, ph.val.filesz) \/ ~CanWrite(pg, dst, ph.val.filesz)
             THEN [res |-> Err("SIGSEGV"), mem |-> m]
             ELSE InitializeTlsOp(Tail(objs), pg,
                      WriteBytes(pg, m, dst, ReadBytes(pg, m, src, ph.val.filesz)), t)

(***************************************************************************)
(* Protection and start.                                                   *)
(***************************************************************************)
\* The protection of a segment as it would be were EXECUTE never taken away.
ProtectionOfKeepsExecute(flags) ==
    {CASE flag = "Read" -> "READ" [] flag = "Write" -> "WRITE" [] flag = "Execute" -> "EXECUTE" :
        flag \in flags} \cup {"EXECUTE"}

\* The protection a segment's flags give (lines 697-704).
ProtectionOf(flags) ==
    {CASE flag = "Read" -> "READ" [] flag = "Write" -> "WRITE" [] flag = "Execute" -> "EXECUTE" :
        flag \in flags}

\* region::protect: mprotect on the pages of [addr, addr + len); it fails
\* when one of them is not mapped, or when the kernel refuses the change
\* for one of them (the pages in denied).
Protect(pg, addr, len, pr, denied) ==
    IF \E n \in PagesOf(addr, len) : n \notin DOMAIN pg \/ n \in denied
    THEN Err("region::Error")
    ELSE Ok([n \in DOMAIN pg |->
                IF n \in PagesOf(addr, len) THEN [pg[n] EXCEPT !.prot = pr] ELSE pg[n]])

\* All segments of all objects, in the order adjust_protections visits them.
AllSegments(objs) ==
    Flatten([i \in DOMAIN objs |-> objs[i].segments])

\* adjust_protections (lines 695-708): protect is called on each segment's
\* mapping, and its first error ends the loop.
RECURSIVE AdjustProtectionsOp(_, _, _)
AdjustProtectionsOp(segs, pg, denied) ==
    IF segs = <<>> THEN [res |-> Ok(Unit), pages |-> pg]
    ELSE LET r == Protect(pg, Head(segs).map.addr, Head(segs).map.len,
                          ProtectionOf(Head(segs).flags), denied)
         IN  IF ~r.ok THEN [res |-> r, pages |-> pg]
             ELSE AdjustProtectionsOp(Tail(segs), r.val, denied)

\* build_stack without the word that aligns the stack.
BuildStackUnaligned(opts) ==
    <<Len(opts.args)>> \o opts.args \o <<0>> \o opts.env \o <<0>>
    \o Flatten([i \in DOMAIN opts.auxv |-> <<opts.auxv[i].typ, opts.auxv[i].value>>])
    \o <<AtNull, 0>>

\* Process<Protected>::build_stack.
BuildStack(opts) ==
    LET words == <<Len(opts.args)>> \o opts.args \o <<0>> \o opts.env \o <<0>>
                 \o Flatten([i \in DOMAIN opts.auxv |->
                                <<opts.auxv[i].typ, opts.auxv[i].value>>])
                 \o <<AtNull, 0>>
    IN  IF Len(words) % 2 = 1 THEN Append(words, 0) ELSE words

\* The registers before start, and what start has run so far.
NoCpu ==
    [fs |-> 0, rip |-> 0, rsp |-> StackTopPage * PageSize, stack |-> <<>>,
     frame |-> <<>>, copied |-> <<>>, ran |-> <<>>]

\* let stack = Self::build_stack(opts) (line 735).
StackBuilt(c) ==
    [c EXCEPT !.ran = Append(@, "build_stack")]

\* crate::set_fs(addr): the base of %fs becomes addr.
SetFs(c, addr) ==
    [c EXCEPT !.fs = addr, !.ran = Append(@, "set_fs")]

\* The loop l1 of jmp (main.rs 351-359) with qword_count in the register:
\* the count is decremented (0 wraps to all ones, -1 as a signed number),
\* the word of that index is copied to [rsp + index * 8], and the loop goes
\* on while the index is not 0.  st = [frame, copied, fault]: the words
\* stored by address, the indices copied in order, and whether a word was
\* read outside the buffer.
RECURSIVE JmpLoop(_, _, _, _)
JmpLoop(qword_count, stack, rsp, st) ==
    LET i == IF qword_count = 0 THEN 0 - 1 ELSE qword_count - 1
    IN  IF i < 0 \/ i >= Len(stack) THEN [st EXCEPT !.fault = TRUE]
        ELSE IF i = 0
        THEN [st EXCEPT !.frame = ((rsp + i * 8) :> stack[i + 1]) @@ @,
                        !.copied = Append(@, i)]
        ELSE JmpLoop(i, stack, rsp,
                     [st EXCEPT !.frame = ((rsp + i * 8) :> stack[i + 1]) @@ @,
                                !.copied = Append(@, i)])

\* jmp as it would be without the shift that turns the word count into a
\* byte count.
JmpWithoutShift(c, entry_point, stack) ==
    LET rsp == c.rsp - Len(stack)
        r == JmpLoop(Len(stack), stack, rsp,
                     [frame |-> <<>>, copied |-> <<>>, fault |-> FALSE])
    IN  [c EXCEPT !.rip = IF r.fault THEN 0 ELSE entry_point,
                  !.rsp = rsp, !.stack = stack, !.frame = r.frame,
                  !.copied = r.copied, !.ran = Append(@, "jmp")]

\* jmp (main.rs 342-368): rsp is lowered by qword_count * 8, the words of
\* the stack are copied there and control goes to the entry point, never
\* to come back.
Jmp(c, entry_point, stack) ==
    LET rsp == c.rsp - Len(stack) * 8
        r == JmpLoop(Len(stack), stack, rsp,
                     [frame |-> <<>>, copied |-> <<>>, fault |-> FALSE])
    IN  [c EXCEPT !.rip = IF r.fault THEN 0 ELSE entry_point,
                  !.rsp = rsp, !.stack = stack, !.frame = r.frame,
                  !.copied = r.copied, !.ran = Append(@, "jmp")]

\* start installing the start of the TLS block, not the TCB, in %fs.
StartOpFsAtBlock(c, objs, t, opts) ==
    Jmp(SetFs(StackBuilt(c), t.block.ptr),
        disk[objs[opts.exec_index + 1].file].entry_point + objs[opts.exec_index + 1].base,
        BuildStack(opts))

\* The body of start (lines 733-740) on the registers c.
StartOp(c, objs, t, opts) ==
    Jmp(SetFs(StackBuilt(c), t.tcb_addr),
        disk[objs[opts.exec_index + 1].file].entry_point + objs[opts.exec_index + 1].base,
        BuildStack(opts))

(***************************************************************************)
(* The ELF files on disk.  Every file has a read-only load segment that    *)
(* holds the dynamic string table and a writable one that the relocation   *)
(* records point into; some carry a PT_TLS segment.                        *)
(***************************************************************************)
TextPh ==
    Ph("Load", 0, 0, 64, 64, {"Read", "Execute"})

DataPh ==
    Ph("Load", DataAddr, DataOffset, 32, 48, {"Read", "Write"})

TlsPh ==
    Ph("TLS", DataAddr, DataOffset, 8, 16, {"Read"})

\* A PT_TLS header of memsz 0, and one with a longer zero tail.
TlsPhEmpty ==
    Ph("TLS", DataAddr, DataOffset, 0, 0, {"Read"})

TlsPhWide ==
    Ph("TLS", DataAddr, DataOffset, 8, 24, {"Read"})

\* A PT_TLS header whose filesz exceeds its memsz: no line of load_object,
\* allocate_tls or initialize_tls compares the two.
TlsPhOver ==
    Ph("TLS", DataAddr, DataOffset, 24, 16, {"Read"})

\* String tables: the names "f" (102) and "g" (103) at different offsets.
ProgStr ==
    <<0, 102, 0, 103, 0>>

LibStr ==
    <<0, 103, 0, 102, 0>>

NullSym ==
    Sym(0, "Local", 0, 0, 0)

Elf(needed, runpath, phdrs, dynstr, syms, rela, jmprel) ==
    [parse_ok |-> TRUE, dynstr |-> dynstr, needed |-> needed, rpath |-> <<>>,
     runpath |-> runpath, phdrs |-> phdrs, entry_point |-> 16, dynsym |-> Ok(syms),
     strtab |-> Ok(StrTabAddr), rela |-> Ok(rela), jmprel |-> Ok(jmprel),
     ifuncs |-> (24 :> (DataAddr + 8))]

\* A file that is no ELF file.
Junk ==
    [Elf(<<>>, <<>>, <<>>, <<0>>, <<>>, <<>>, <<>>) EXCEPT !.parse_ok = FALSE]

\* A library without dependencies, symbols or relocation records.
PlainLib ==
    Elf(<<>>, <<>>, <<TextPh, DataPh>>, LibStr, <<>>, <<>>, <<>>)

OriginLib ==
    <<<<"$ORIGIN", "..", "lib">>>>

\* The dependency graphs: file id -> DT_NEEDED names, with the executable's
\* DT_RUNPATH $ORIGIN/../lib.
DepGraphs ==
    { \* a tree two levels deep
      [prog |-> <<<<"libfoo.so">>, <<"libbar.so">>>>,
       foo |-> <<<<"libbaz.so">>, <<"libc.so">>>>,
       bar |-> <<<<"libc.so.6">>>>, baz |-> <<>>, libc |-> <<>>, foosys |-> <<>>],
      \* a cycle through the executable, and an object that needs itself
      [prog |-> <<<<"libc.so">>>>,
       libc |-> <<<<"libbar.so">>>>,
       bar |-> <<<<"libbar.so">>, <<"..", "..", "..", "opt", "app", "bin", "prog">>>>,
       foo |-> <<>>, baz |-> <<>>, foosys |-> <<>>],
      \* the same object under three names in one level
      [prog |-> <<<<"libc.so">>, <<"libc.so.6">>, <<"libc.so">>, <<"libfoo.so.1">>>>,
       libc |-> <<>>, foosys |-> <<<<"libc.so">>>>,
       foo |-> <<>>, bar |-> <<>>, baz |-> <<>>],
      \* a name that is not on the search path, after one that is
      [prog |-> <<<<"libbar.so">>, <<"lib\\xFF.so">>>>,
       bar |-> <<>>, libc |-> <<>>, foo |-> <<>>, baz |-> <<>>, foosys |-> <<>>],
      \* a dependency that is no ELF file
      [prog |-> <<<<"libbaz.so">>, <<"junk.so">>>>,
       baz |-> <<<<"libc.so">>>>, libc |-> <<>>, foo |-> <<>>, bar |-> <<>>,
       foosys |-> <<>>] }

DepWorld(g) ==
    [f \in FileIds |->
        IF f = "junk" THEN Junk
        ELSE Elf(g[f],
                 IF f = "prog" THEN OriginLib ELSE <<>>,
                 CASE f = "foo" -> <<TextPh, DataPh, TlsPh>>
                   [] f = "libc" -> <<TextPh, DataPh, TlsPhWide>>
                   [] f = "bar" -> <<TextPh, DataPh, TlsPhEmpty>>
                   [] OTHER -> <<TextPh, DataPh>>,
                 IF f = "prog" THEN ProgStr ELSE LibStr,
                 <<NullSym>>,
                 <<Rela("Relative", 0, DataAddr, 24)>>,
                 <<>>)]

\* The symbol tables of the relocation worlds: how the executable declares
\* f, and which of libfoo and libc define it.
SymConfigs ==
    [prog_bind : {"Global", "Weak"}, prog_defines : BOOLEAN,
     foo_defines : BOOLEAN, libc_defines : BOOLEAN]

\* The one record of the executable's DT_RELA table: of every type, with
\* and without a symbol, its target the first data word; or a record whose
\* target word shares four bytes with the target of the DT_JMPREL record;
\* or a record with a symbol number past the three symbols of the table;
\* or a TPOff64 record whose addend makes the value stored negative.
RelChoices ==
    {Rela(t, sy, DataAddr, 5) :
        t \in {"_64", "Relative", "Copy", "GlobDat", "JumpSlot", "TPOff64", "DTPMOD64", "PC32"},
        sy \in {0, 1}}
    \cup {Rela("Relative", 0, DataAddr + 4, 5), Rela("_64", 2, DataAddr + 4, 5)}
    \cup {Rela("_64", 7, DataAddr, 5)}
    \cup {Rela("TPOff64", 1, DataAddr, 0 - (DataAddr + 16))}

RelocWorld(c, rel, tp) ==
    [f \in FileIds |->
        CASE f = "junk" -> Junk
          [] f = "prog" ->
                Elf(<<<<"libfoo.so">>, <<"libc.so">>>>, OriginLib, <<TextPh, DataPh>>, ProgStr,
                    <<NullSym,
                      Sym(1, c.prog_bind, IF c.prog_defines THEN 1 ELSE 0, DataAddr + 16, 4),
                      Sym(3, "Global", 1, DataAddr + 24, 8)>>,
                    <<rel>>, <<Rela("JumpSlot", 2, DataAddr + 8, 0)>>)
          [] f = "foo" ->
                Elf(<<>>, <<>>, <<TextPh, DataPh, TlsPh>>, LibStr,
                    <<NullSym, Sym(3, "Global", 0, 0, 0),
                      Sym(3, "Global", IF c.foo_defines THEN 1 ELSE 0, DataAddr + 8, 8),
                      Sym(3, "Global", IF c.foo_defines THEN 1 ELSE 0, DataAddr + 12, 4)>>,
                    <<>>, <<>>)
          [] f = "libc" ->
                Elf(<<>>, <<>>, <<TextPh, DataPh, tp>>, LibStr,
                    <<NullSym, Sym(1, "Global", 1, DataAddr, 8),
                      Sym(3, "Weak", IF c.libc_defines THEN 1 ELSE 0, DataAddr + 16, 2)>>,
                    <<Rela("_64", 1, DataAddr + 4, 3)>>, <<>>)
          [] OTHER -> PlainLib]

\* Files that fail to load after their DT_RUNPATH was read: libbaz has no
\* readable dynamic symbol table, libfoo has no PT_LOAD segment.
FailWorld ==
    [DepWorld([prog |-> <<<<"libbaz.so">>, <<"libfoo.so">>>>,
               foo |-> <<>>, bar |-> <<>>, baz |-> <<>>, libc |-> <<>>, foosys |-> <<>>])
        EXCEPT !.baz = [Elf(<<>>, OriginLib, <<TextPh, DataPh>>, LibStr, <<NullSym>>, <<>>, <<>>)
                           EXCEPT !.dynsym = Err("ReadSymsError")],
               !.foo = Elf(<<>>, OriginLib, <<>>, LibStr, <<NullSym>>, <<>>, <<>>)]

DepWorlds ==
    {DepWorld(g) : g \in DepGraphs} \cup {FailWorld}

\* The program headers of the segment worlds: the usual two segments; a
\* second segment with each set of flags; a zero tail that reaches the next
\* page; a vaddr off the page boundary, with and without file bytes, and
\* with file bytes that cross into the next page; more
\* filesz than memsz; no file bytes at all; a lowest segment off the page
\* boundary; and a third segment on the page of the second.
SegPhdrs ==
    {<<TextPh, DataPh>>}
    \cup {<<TextPh, Ph("Load", DataAddr, DataOffset, 32, 32, fl)>> :
              fl \in SUBSET {"Read", "Write", "Execute"}}
    \cup {<<TextPh, Ph("Load", DataAddr, DataOffset, 32, PageSize + 16, fl)>> :
              fl \in {{"Read", "Write"}, {"Read"}}}
    \cup {<<TextPh, Ph("Load", DataAddr + 16, DataOffset + 16, fsz, 24, {"Read"})>> :
              fsz \in {0, 16}}
    \cup {<<TextPh, Ph("Load", DataAddr, DataOffset, 32, 16, {"Read", "Write"})>>,
          <<TextPh, Ph("Load", DataAddr, DataOffset, 0, 16, {"Read", "Write"})>>,
          <<Ph("Load", 16, 16, 48, 48, {"Read", "Execute"}), DataPh>>,
          <<TextPh, Ph("Load", DataAddr + PageSize - 8, DataOffset + PageSize - 8, 16, 16,
                       {"Read"})>>,
          <<TextPh, DataPh,
            Ph("Load", DataAddr + 256, DataOffset + PageSize + 256, 16, 16, {"Read"})>>}

\* An executable without dependencies whose program headers are phs.
SegWorld(phs) ==
    [f \in FileIds |->
        CASE f = "junk" -> Junk
          [] f = "prog" -> Elf(<<>>, <<>>, phs, ProgStr, <<NullSym>>, <<>>, <<>>)
          [] OTHER -> PlainLib]

\* The window the panic message of Name::mapped names.
NameWindow ==
    2048

\* An executable whose symbol f has a name of 2100 bytes, in a text segment
\* of 3072 bytes.
LongNameWorld ==
    [SegWorld(<<Ph("Load", 0, 0, 3072, 3072, {"Read", "Execute"}), DataPh>>)
        EXCEPT !.prog.dynstr = <<0>> \o [i \in 1..(NameWindow + 52) |-> 102] \o <<0>>,
               !.prog.dynsym = Ok(<<NullSym, Sym(1, "Global", 1, DataAddr, 8)>>)]

\* An executable whose symbol f has a name that runs to the end of the text
\* segment's mapping without a NUL byte.
NoNulWorld ==
    [SegWorld(<<TextPh, DataPh>>)
        EXCEPT !.prog.dynstr = <<0>> \o [i \in 1..(64 - StrTabAddr - 1) |-> 102],
               !.prog.dynsym = Ok(<<NullSym, Sym(1, "Global", 1, DataAddr, 8)>>)]

SegWorlds ==
    {SegWorld(phs) : phs \in SegPhdrs} \cup {LongNameWorld, NoNulWorld}

\* libfoo with no dynamic symbol at all (read_dynsym_entries gives an empty
\* list, lines 381-383) and one R_X86_64_RELATIVE record.
EmptySymsWorld ==
    [RelocWorld([prog_bind |-> "Global", prog_defines |-> TRUE,
                 foo_defines |-> FALSE, libc_defines |-> TRUE],
                Rela("Relative", 0, DataAddr, 5), TlsPh)
        EXCEPT !.foo = Elf(<<>>, <<>>, <<TextPh, DataPh, TlsPh>>, LibStr, <<>>,
                           <<Rela("Relative", 0, DataAddr, 5)>>, <<>>)]

\* libfoo, the first object with a TLS segment (its slot ends at the TCB),
\* with a PT_TLS header of filesz 24 and memsz 16.
TcbOverWorld ==
    [RelocWorld([prog_bind |-> "Global", prog_defines |-> TRUE,
                 foo_defines |-> FALSE, libc_defines |-> TRUE],
                Rela("Relative", 0, DataAddr, 5), TlsPh)
        EXCEPT !.foo.phdrs = <<TextPh, DataPh, TlsPhOver>>]

RelocWorlds ==
    {RelocWorld(c, rel, TlsPh) : c \in SymConfigs, rel \in RelChoices}
    \cup {RelocWorld(c, Rela("Relative", 0, DataAddr, 5), TlsPhOver) : c \in SymConfigs}
    \cup {EmptySymsWorld, TcbOverWorld}

(***************************************************************************)
(* The arguments the operations are called with.                           *)
(***************************************************************************)
ProgPath ==
    AppBin \o <<"prog">>

\* The pages for which the kernel refuses mprotect: none, or the page of
\* the data segment of the object loaded first.
DeniedSets ==
    {{}, {MapStartPage + 2}}

LoadPaths ==
    {ProgPath, AppLib \o <<"libfoo.so">>, <<"lib", "..", "lib", "libfoo.so.1">>,
     DefaultLibDir \o <<"junk.so">>, DefaultLibDir, <<"/", "nope">>}

RootPaths ==
    {ProgPath, DefaultLibDir \o <<"libbar.so">>}

GetNames ==
    {<<"libc.so">>, <<"libc.so.6">>, <<"libfoo.so">>, <<"libfoo.so.1">>, <<"junk.so">>,
     <<"libmissing.so">>}

StartOpts ==
    {[exec_index |-> 0, args |-> <<28672>>, env |-> <<>>, auxv |-> <<>>],
     [exec_index |-> 0, args |-> <<28672, 28680>>, env |-> <<28688>>,
      auxv |-> <<[typ |-> 6, value |-> 4096]>>],
     [exec_index |-> 0, args |-> <<28672>>, env |-> <<28688>>, auxv |-> <<>>],
     [exec_index |-> 0, args |-> <<>>, env |-> <<>>,
      auxv |-> <<[typ |-> 6, value |-> 4096], [typ |-> 9, value |-> 16]>>],
     [exec_index |-> 0, args |-> <<>>, env |-> <<>>, auxv |-> <<>>],
     [exec_index |-> 9, args |-> <<>>, env |-> <<>>, auxv |-> <<>>]}

(***************************************************************************)
(* The state machine.                                                      *)
(***************************************************************************)
\* The Loader of the Process, with the address space it maps into.
Loader ==
    [search_path |-> search_path, objects |-> objects,
     objects_by_path |-> objects_by_path, next_map |-> next_map,
     pages |-> pages, mem |-> mem]

\* Process::new (lines 236-246), before any file is loaded.
New ==
    /\ phase = "Loading"
    /\ search_path = <<DefaultLibDir>>
    /\ objects = <<>>
    /\ objects_by_path = <<>>
    /\ next_map = MapStartPage * PageSize
    /\ pages = <<>>
    /\ mem = <<>>
    /\ tls = NoTls
    /\ cpu = NoCpu
    /\ last = [op |-> "new", arg |-> <<>>, res |-> Ok(Unit)]
    /\ applied = <<>>

\* What a call on &mut Process<Loading> leaves: the loader it changed, and
\* the process gone when the call panicked.
Loaded(op, arg, r) ==
    /\ search_path' = r.L.search_path
    /\ objects' = r.L.objects
    /\ objects_by_path' = r.L.objects_by_path
    /\ next_map' = r.L.next_map
    /\ pages' = r.L.pages
    /\ mem' = r.L.mem
    /\ phase' = IF Fatal(r.res) THEN "Aborted" ELSE phase
    /\ last' = [op |-> op, arg |-> arg, res |-> r.res]
    /\ UNCHANGED <<disk, tls, cpu, applied>>

\* The Result<usize, LoadError> a call hands to its caller.
Returning(r) ==
    IF r.res.ok THEN [L |-> r.L, res |-> Ok(Index(r.res.val))] ELSE r

DoLoadObject ==
    /\ phase = "Loading"
    /\ Len(objects) < MaxObjects
    /\ Len(search_path) < MaxSearchPath
    /\ next_map < (MapStartPage + MaxMapPages) * PageSize
    /\ \E path \in LoadPaths :
          Loaded("load_object", path, Returning(LoadObject(Loader, path)))

DoGetObject ==
    /\ phase = "Loading"
    /\ Len(objects) < MaxObjects
    /\ Len(search_path) < MaxSearchPath
    /\ next_map < (MapStartPage + MaxMapPages) * PageSize
    /\ \E name \in GetNames : Loaded("get_object", name, GetObject(Loader, name))

DoLoadObjectAndDependencies ==
    /\ phase = "Loading"
    /\ Len(objects) < MaxObjects
    /\ Len(search_path) < MaxSearchPath
    /\ next_map < (MapStartPage + MaxMapPages) * PageSize
    /\ \E path \in RootPaths :
          Loaded("load_object_and_dependencies", path,
                 Returning(LoadObjectAndDependencies(Loader, path)))

DoAllocateTls ==
    /\ phase = "Loading"
    /\ LET r == AllocateTlsOp(objects, HeapPage * PageSize)
       IN  /\ tls' = r.tls
           /\ pages' = MmapPages(pages, r.tls.block.ptr, r.tls.block.len, "anon", 0,
                                  {"READ", "WRITE"})
           /\ mem' = WriteBytes(pages', mem, r.tls.block.ptr, r.bytes)
    /\ phase' = "TLSAllocated"
    /\ last' = [op |-> "allocate_tls", arg |-> <<>>, res |-> Ok(Unit)]
    /\ UNCHANGED <<disk, search_path, objects, objects_by_path, next_map, cpu, applied>>

\* apply_relocations as it would be were it implemented for every Process<S>.
ApplyRelocationsInAnyPhase ==
    /\ phase \in {"Loading", "TLSAllocated"}
    /\ LET r == ApplyRelocations(objects, pages, mem, tls)
       IN  /\ mem' = r.mem
           /\ applied' = r.log
           /\ phase' = IF r.res.ok THEN "Relocated"
                        ELSE IF Fatal(r.res) THEN "Aborted"
                        ELSE "Failed"
           /\ last' = [op |-> "apply_relocations", arg |-> <<>>, res |-> r.res]
    /\ UNCHANGED <<disk, search_path, objects, objects_by_path, next_map, pages, tls, cpu>>

\* Process<TLSAllocated>::apply_relocations (self by value: the phase is consumed).
DoApplyRelocations ==
    /\ phase = "TLSAllocated"
    /\ LET r == ApplyRelocations(objects, pages, mem, tls)
       IN  /\ mem' = r.mem
           /\ applied' = r.log
           /\ phase' = IF r.res.ok THEN "Relocated"
                        ELSE IF Fatal(r.res) THEN "Aborted"
                        ELSE "Failed"
           /\ last' = [op |-> "apply_relocations", arg |-> <<>>, res |-> r.res]
    /\ UNCHANGED <<disk, search_path, objects, objects_by_path, next_map, pages, tls, cpu>>

DoInitializeTls ==
    /\ phase = "Relocated"
    /\ LET r == InitializeTlsOp(objects, pages, mem, tls)
       IN  /\ mem' = r.mem
           /\ phase' = IF r.res.ok THEN "TLSInitialized" ELSE "Aborted"
           /\ last' = [op |-> "initialize_tls", arg |-> <<>>, res |-> r.res]
    /\ UNCHANGED <<disk, search_path, objects, objects_by_path, next_map, pages, tls, cpu,
                   applied>>

DoAdjustProtections ==
    /\ phase = "TLSInitialized"
    /\ \E denied \in DeniedSets :
       LET r == AdjustProtectionsOp(AllSegments(objects), pages, denied)
       IN  /\ pages' = r.pages
           /\ phase' = IF r.res.ok THEN "Protected" ELSE "Failed"
           /\ last' = [op |-> "adjust_protections", arg |-> [denied |-> denied],
                       res |-> r.res]
    /\ UNCHANGED <<disk, search_path, objects, objects_by_path, next_map, mem, tls, cpu,
                   applied>>

DoStart ==
    /\ phase = "Protected"
    /\ \E opts \in StartOpts :
          IF opts.exec_index >= Len(objects)
          THEN /\ phase' = "Aborted"
               /\ cpu' = cpu
               /\ last' = [op |-> "start", arg |-> opts, res |-> Err("panic")]
          ELSE /\ phase' = "Started"
               /\ cpu' = StartOp(cpu, objects, tls, opts)
               /\ last' = [op |-> "start", arg |-> opts, res |-> Ok([noreturn |-> TRUE])]
    /\ UNCHANGED <<disk, search_path, objects, objects_by_path, next_map, pages, mem, tls,
                   applied>>

Next ==
    \/ DoLoadObject
    \/ DoGetObject
    \/ DoLoadObjectAndDependencies
    \/ DoAllocateTls
    \/ DoApplyRelocations
    \/ DoInitializeTls
    \/ DoAdjustProtections
    \/ DoStart

\* The loader's public operations in any order, over the dependency graphs.
Init ==
    disk \in DepWorlds /\ New

Spec ==
    Init /\ [][Next]_vars

\* The run command (cmd_run in main.rs): the dependencies are loaded by
\* load_object_and_dependencies alone, then the phases follow; over the
\* relocation worlds.
InitRun ==
    disk \in RelocWorlds /\ New

NextRun ==
    \/ DoLoadObjectAndDependencies
    \/ DoAllocateTls
    \/ DoApplyRelocations
    \/ DoInitializeTls
    \/ DoAdjustProtections
    \/ DoStart

SpecRun ==
    InitRun /\ [][NextRun]_vars

\* The same operations over the segment worlds.
InitSeg ==
    disk \in SegWorlds /\ New

NextSeg ==
    \/ DoLoadObjectAndDependencies
    \/ DoAllocateTls
    \/ DoApplyRelocations
    \/ DoInitializeTls
    \/ DoAdjustProtections
    \/ DoStart

SpecSeg ==
    InitSeg /\ [][NextSeg]_vars

(***************************************************************************)
(* The run command as main.rs writes it: the calls of cmd_run, one after   *)
(* the other, each `?` ending the command on an error.  A method is        *)
(* applied to the process as it is, whatever phase its type names.         *)
(***************************************************************************)
\* let exec_index = proc.load_object_and_dependencies(&args.exec_path)?;
CmdRunLoad ==
    /\ last.op = "new"
    /\ \E path \in RootPaths :
          Loaded("load_object_and_dependencies", path,
                 Returning(LoadObjectAndDependencies(Loader, path)))

\* proc.apply_relocations()?;
CmdRunApplyRelocations ==
    /\ last.op = "load_object_and_dependencies"
    /\ last.res.ok
    /\ LET r == ApplyRelocations(objects, pages, mem, tls)
       IN  /\ mem' = r.mem
           /\ applied' = r.log
           /\ phase' = IF r.res.ok THEN "Relocated"
                        ELSE IF Fatal(r.res) THEN "Aborted"
                        ELSE "Failed"
           /\ last' = [op |-> "apply_relocations", arg |-> <<>>, res |-> r.res]
    /\ UNCHANGED <<disk, search_path, objects, objects_by_path, next_map, pages, tls, cpu>>

\* proc.adjust_protections()?;
CmdRunAdjustProtections ==
    /\ last.op = "apply_relocations"
    /\ last.res.ok
    /\ \E denied \in DeniedSets :
       LET r == AdjustProtectionsOp(AllSegments(objects), pages, denied)
       IN  /\ pages' = r.pages
           /\ phase' = IF r.res.ok THEN "Protected" ELSE "Failed"
           /\ last' = [op |-> "adjust_protections", arg |-> [denied |-> denied],
                       res |-> r.res]
    /\ UNCHANGED <<disk, search_path, objects, objects_by_path, next_map, mem, tls, cpu,
                   applied>>

\* proc.start(&opts), the executable's path the first argument.
CmdRunStart ==
    /\ last.op = "adjust_protections"
    /\ last.res.ok
    /\ \E opts \in {o \in StartOpts : o.exec_index = 0 /\ o.args # <<>>} :
          /\ phase' = "Started"
          /\ cpu' = StartOp(cpu, objects, tls, opts)
          /\ last' = [op |-> "start", arg |-> opts, res |-> Ok([noreturn |-> TRUE])]
    /\ UNCHANGED <<disk, search_path, objects, objects_by_path, next_map, pages, mem, tls,
                   applied>>

NextCmdRun ==
    \/ CmdRunLoad
    \/ CmdRunApplyRelocations
    \/ CmdRunAdjustProtections
    \/ CmdRunStart

SpecCmdRun ==
    InitRun /\ [][NextCmdRun]_vars

(***************************************************************************)
(* The phases.                                                             *)
(***************************************************************************)
\* The position of a phase in Loading -> TLSAllocated -> Relocated ->
\* TLSInitialized -> Protected -> started.
PhaseRank(p) ==
    CASE p = "Loading" -> 0
      [] p = "TLSAllocated" -> 1
      [] p = "Relocated" -> 2
      [] p = "TLSInitialized" -> 3
      [] p = "Protected" -> 4
      [] p = "Started" -> 5
      [] OTHER -> 6

\* The phase each operation is implemented for, and the phase it returns.
PhaseBefore(op) ==
    CASE op = "allocate_tls" -> "Loading"
      [] op = "apply_relocations" -> "TLSAllocated"
      [] op = "initialize_tls" -> "Relocated"
      [] op = "adjust_protections" -> "TLSInitialized"
      [] op = "start" -> "Protected"
      [] OTHER -> "Loading"

PhaseAfter(op) ==
    CASE op = "allocate_tls" -> "TLSAllocated"
      [] op = "apply_relocations" -> "Relocated"
      [] op = "initialize_tls" -> "TLSInitialized"
      [] op = "adjust_protections" -> "Protected"
      [] op = "start" -> "Started"
      [] OTHER -> "Loading"

\* One step of an operation keeps to the order of the phases: the operation
\* it records ran in the phase it is implemented for, and the process is
\* then in the next phase (or gone, where the operation failed).
PhaseStep ==
    /\ phase = PhaseBefore(last'.op)
    /\ phase' \in {PhaseAfter(last'.op), "Failed", "Aborted"}
    /\ phase' # phase => PhaseRank(phase') = PhaseRank(phase) + 1 \/ PhaseRank(phase') = 6
    /\ last'.op = "apply_relocations" => phase # "Loading"
    /\ last'.op = "adjust_protections" => phase \notin {"Loading", "TLSAllocated", "Relocated"}

\* C1: the phases are traversed strictly in the order Loading, TLSAllocated,
\* Relocated, TLSInitialized, Protected, started: every transition runs only
\* in the phase just before its own and consumes it, no phase is skipped or
\* entered again, apply_relocations never runs before allocate_tls and
\* adjust_protections never before initialize_tls.
C1_PhaseOrder ==
    [][PhaseStep]_vars

\* A process that went through every phase and was started.
C1_Witness ==
    phase = "Started" /\ last.op = "start" /\ applied # <<>>

(***************************************************************************)
(* The dependency graph the loaded objects form.                           *)
(***************************************************************************)
\* The loader of a process nothing was loaded into: that of Process::new.
IsFresh ==
    /\ phase = "Loading"
    /\ objects = <<>>
    /\ objects_by_path = <<>>
    /\ search_path = <<DefaultLibDir>>

\* The index (from 0) of the first object with the path, -1 without one.
IndexOfPath(L, p) ==
    FirstIndex(L.objects, LAMBDA o : o.path = p) - 1

\* The object a resolved name stands for, -1 when it did not resolve.
IndexOfResolved(L, r) ==
    IF r.ok THEN IndexOfPath(L, r.val) ELSE 0 - 1

\* The objects the DT_NEEDED names of object i resolve to on the search
\* path of L, in the order of the entries.
Targets(L, i) ==
    [k \in DOMAIN disk[L.objects[i + 1].file].needed |->
        IndexOfResolved(L, ObjectPath(L, FromUtf8Lossy(disk[L.objects[i + 1].file].needed[k])))]

\* Every DT_NEEDED name of every object resolves to the path of an object.
ClosureClosed(L) ==
    \A i \in 0..(Len(L.objects) - 1) :
        \A k \in DOMAIN Targets(L, i) : Targets(L, i)[k] >= 0

\* C2: after a successful load_object_and_dependencies on a fresh process
\* every DT_NEEDED name of every object in the object list resolves, on the
\* search path as the call left it, to the canonical path of an object in
\* the object list.
C2_ClosureClosed ==
    [][(IsFresh /\ last'.op = "load_object_and_dependencies" /\ last'.res.ok)
           => ClosureClosed(Loader')]_vars

\* The tree two levels deep is loaded: five objects, whose dependencies are
\* named through symlinks and through the RUNPATH of the executable.
C2_Witness ==
    /\ last.op = "load_object_and_dependencies"
    /\ last.res.ok
    /\ Len(objects) = 5
    /\ ClosureClosed(Loader)

\* The objects within k dependency edges of the root.
RECURSIVE Within(_, _)
Within(L, k) ==
    IF k = 0 THEN {0}
    ELSE Within(L, k - 1) \cup UNION {Range(Targets(L, i)) : i \in Within(L, k - 1)}

\* The dependency depth an object is first reached at.
Depth(L, i) ==
    CHOOSE k \in 0..Len(L.objects) :
        i \in Within(L, k) /\ (k = 0 \/ i \notin Within(L, k - 1))

\* What the objects of depth d name, the objects in load order and the
\* names of each in the order of its DT_NEEDED entries.
LevelMentions(L, d) ==
    Flatten([i \in 1..Len(L.objects) |->
        IF Depth(L, i - 1) = d THEN Targets(L, i - 1) ELSE <<>>])

FirstMention(L, x, d) ==
    FirstIndex(LevelMentions(L, d), LAMBDA t : t = x)

BreadthFirst(L) ==
    /\ \A i \in 0..(Len(L.objects) - 1) : i \in Within(L, Len(L.objects))
    /\ \A i, j \in 0..(Len(L.objects) - 1) :
          /\ Depth(L, i) < Depth(L, j) => i < j
          /\ (i < j /\ Depth(L, i) = Depth(L, j) /\ Depth(L, i) > 0)
                => /\ FirstMention(L, i, Depth(L, i) - 1) > 0
                   /\ FirstMention(L, i, Depth(L, i) - 1) < FirstMention(L, j, Depth(L, i) - 1)

\* C7: on a fresh process load_object_and_dependencies gives out the
\* indices breadth first: the root has index 0, an object first reached at
\* depth d has a smaller index than one first reached at a greater depth,
\* and the objects of one level are in the order in which the DT_NEEDED
\* entries of the level before name them, its objects in load order.
C7_BreadthFirst ==
    [][(IsFresh /\ last'.op = "load_object_and_dependencies" /\ last'.res.ok)
           => /\ last'.res.val = Index(0)
              /\ Canonicalize(last'.arg) = Ok(objects'[1].path)
              /\ BreadthFirst(Loader')]_vars

\* A load with two objects at depth 1 and two at depth 2.
C7_Witness ==
    /\ last.op = "load_object_and_dependencies"
    /\ last.res.ok
    /\ Len(objects) = 5
    /\ Depth(Loader, 1) = 1 /\ Depth(Loader, 2) = 1
    /\ Depth(Loader, 3) = 2 /\ Depth(Loader, 4) = 2

(***************************************************************************)
(* The object list and the path index.                                     *)
(***************************************************************************)
\* C3: after any sequence of load_object, get_object and
\* load_object_and_dependencies no two entries of the object list have the
\* same canonical path.
C3_NoDuplicatePaths ==
    \A i, j \in DOMAIN objects : i # j => objects[i].path # objects[j].path

\* C4: in every loader state every entry objects_by_path[p] = i has i a
\* valid index of the object list with objects[i].path = p, and the path
\* of every object is a key of objects_by_path.
C4_PathIndex ==
    /\ \A p \in DOMAIN objects_by_path :
          /\ objects_by_path[p] \in 0..(Len(objects) - 1)
          /\ objects[objects_by_path[p] + 1].path = p
    /\ \A i \in DOMAIN objects : objects[i].path \in DOMAIN objects_by_path

\* Two paths are in the index, one of them entered while the other was there.
C4_Witness ==
    /\ Cardinality(DOMAIN objects_by_path) >= 2
    /\ \E p \in DOMAIN objects_by_path : objects_by_path[p] >= 1

\* One step leaves the objects that are in the list where they are; what
\* load_object returns is the length of the list before, and the object
\* at that index is the new one.
IndicesStable ==
    /\ Len(objects') >= Len(objects)
    /\ \A i \in DOMAIN objects :
          /\ objects'[i].path = objects[i].path
          /\ objects'[i].base = objects[i].base
          /\ objects'[i] = objects[i]
    /\ (last'.op = "load_object" /\ last'.res.ok)
          => /\ last'.res.val = Index(Len(objects))
             /\ Len(objects') = Len(objects) + 1
             /\ Canonicalize(last'.arg) = Ok(objects'[last'.res.val.index + 1].path)
    /\ \A k \in (Len(objects) + 1)..Len(objects') :
          objects'[k].path \in DOMAIN objects_by_path'
             => objects_by_path'[objects'[k].path] >= Len(objects)

\* C5: object indices are stable: the object at an index load_object has
\* returned is the same object (path and base) after every later operation
\* in every phase; the object list is only appended to, never reordered
\* or shrunk; a new object has the index that was the length of the list
\* before it was inserted.
C5_IndicesStable ==
    [][IndicesStable]_vars

\* The first object is still at index 0 when the process has gone through
\* the phases, other objects having been loaded after it.
C5_Witness ==
    /\ phase = "Protected"
    /\ Len(objects) >= 2
    /\ objects_by_path[objects[1].path] = 0

\* What get_object does in one step, by the path its name resolves to on
\* the search path before the call.
GetObjectStep(path) ==
    IF path.val \in DOMAIN objects_by_path
    THEN /\ last'.res.ok
         /\ last'.res.val = [kind |-> "Cached", index |-> objects_by_path[path.val]]
         /\ UNCHANGED <<objects, objects_by_path, search_path>>
    ELSE last'.res.ok
            => /\ last'.res.val = [kind |-> "Fresh", index |-> Len(objects)]
               /\ Len(objects') = Len(objects) + 1
               /\ objects'[Len(objects')].path = path.val
               /\ objects_by_path'[path.val] = Len(objects)

\* C6: get_object(name) returns Cached(i), i the index the path index
\* holds, and leaves the object list, the path index and the search path
\* as they are when the canonical path the name resolves to is a key of the
\* path index; otherwise it loads the object and returns Fresh(i), i the
\* length of the object list before the call.
C6_GetObject ==
    [][(last'.op = "get_object" /\ ObjectPath(Loader, last'.arg).ok)
           => GetObjectStep(ObjectPath(Loader, last'.arg))]_vars

\* get_object found an object in the path index under another name than
\* the file's own: through a symlink.
C6_Witness ==
    /\ last.op = "get_object"
    /\ last.res.ok
    /\ last.res.val.kind = "Cached"
    /\ last.arg = <<"libc.so">>
    /\ objects[last.res.val.index + 1].path = DefaultLibDir \o <<"libc.so.6">>

(***************************************************************************)
(* Symbol resolution, by the symbol tables and string tables of the files. *)
(***************************************************************************)
\* The string at offset off of a string table: the bytes up to the NUL.
StrAt(str, off) ==
    SubSeq(str, off + 1,
           (CHOOSE j \in (off + 1)..Len(str) :
                str[j] = 0 /\ \A i \in (off + 1)..(j - 1) : str[i] # 0) - 1)

\* The name of symbol k of object o (from 0), from the file's string table.
SymbolName(objs, o, k) ==
    StrAt(disk[objs[o + 1].file].dynstr, disk[objs[o + 1].file].dynsym.val[k].name)

\* The defined symbols of object o with the name, by their place in the
\* symbol table.
DefinedNamed(objs, o, bytes) ==
    {k \in DOMAIN disk[objs[o + 1].file].dynsym.val :
        /\ disk[objs[o + 1].file].dynsym.val[k].shndx # 0
        /\ SymbolName(objs, o, k) = bytes}

\* The objects, but for those to skip, that define the name.
Holders(objs, skip, bytes) ==
    {o \in 0..(Len(objs) - 1) : o \notin skip /\ DefinedNamed(objs, o, bytes) # {}}

LeastOf(S) ==
    CHOOSE x \in S : \A y \in S : x <= y

\* The first defined symbol of the name: of the first object in load order
\* that has one, the first in the order of its symbol table.
FirstDefined(objs, skip, bytes) ==
    IF Holders(objs, skip, bytes) = {} THEN Undefined
    ELSE Defined(LeastOf(Holders(objs, skip, bytes)),
                 objs[LeastOf(Holders(objs, skip, bytes)) + 1].syms[
                     LeastOf(DefinedNamed(objs, LeastOf(Holders(objs, skip, bytes)), bytes))])

\* C8: lookup_symbol(wanted, ignore_self) returns the first defined symbol
\* (section index not SHN_UNDEF) whose name has the bytes of the wanted
\* name, the objects taken in load order and the symbols of an object in
\* the order of its symbol table, and Undefined exactly when no object it
\* scans defines the name; the names are compared by their bytes, whichever
\* string table they are mapped from.
C8_LookupSymbol ==
    \A o \in 0..(Len(objects) - 1) :
        \A k \in DOMAIN objects[o + 1].syms :
            \A ignore_self \in BOOLEAN :
                LookupSymbol(objects, pages, mem,
                             [obj |-> o, sym |-> objects[o + 1].syms[k]], ignore_self)
                    = FirstDefined(objects, IF ignore_self THEN {o} ELSE {},
                                   SymbolName(objects, o, k))

\* The executable's reference to f, at offset 1 of its string table, was
\* resolved to the second of the three symbols named f in libfoo, at offset
\* 3 of that string table: the first is undefined, the third defined as
\* well, and libc, loaded later, defines f too.
C8_Witness ==
    /\ phase = "Relocated"
    /\ Len(objects) = 3
    /\ disk["libc"].dynsym.val[3].shndx # 0
    /\ \E n \in DOMAIN applied :
          /\ applied[n].obj = 0
          /\ applied[n].found.defined
          /\ applied[n].found.obj = 1
          /\ applied[n].found.sym = objects[2].syms[3]
          /\ applied[n].found.sym.sym.name = 3
          /\ objects[1].syms[objects[1].rels[applied[n].rel].sym + 1].sym.name = 1

\* What the log says of one record with a symbol: the symbol found is the
\* first defined one of the name, the record's own object left out for a
\* Copy record and for no other.
ResolvedAsLogged(e, rel) ==
    /\ e.found = FirstDefined(objects, IF rel.type = "Copy" THEN {e.obj} ELSE {},
                              SymbolName(objects, e.obj, rel.sym + 1))
    /\ rel.type = "Copy" => ~(e.found.defined /\ e.found.obj = e.obj)
    /\ (rel.type # "Copy" /\ DefinedNamed(objects, e.obj,
                                          SymbolName(objects, e.obj, rel.sym + 1)) # {}
           /\ Holders(objects, 0..(e.obj - 1), SymbolName(objects, e.obj, rel.sym + 1))
                  = Holders(objects, {}, SymbolName(objects, e.obj, rel.sym + 1)))
          => e.found.defined /\ e.found.obj = e.obj

\* C9: the object of a relocation is left out of the symbol lookup if and
\* only if the relocation is an R_X86_64_COPY: a COPY record never resolves
\* to a symbol of the object that carries it, even when that object defines
\* the name and is first in load order; a record of any other type resolves
\* to its own object when that is the first to define the name.
C9_IgnoreSelfIffCopy ==
    \A n \in DOMAIN applied :
        objects[applied[n].obj + 1].rels[applied[n].rel].sym # 0
            => ResolvedAsLogged(applied[n], objects[applied[n].obj + 1].rels[applied[n].rel])

\* A COPY record of the executable, which defines f itself and is first in
\* load order, was resolved to the f of a library.
C9_Witness ==
    /\ phase = "Relocated"
    /\ Len(objects) = 3
    /\ disk["prog"].dynsym.val[2].shndx # 0
    /\ objects[1].rels[1].type = "Copy"
    /\ objects[1].rels[1].sym = 1
    /\ \E n \in DOMAIN applied :
          /\ applied[n].obj = 0 /\ applied[n].rel = 1
          /\ applied[n].found.defined
          /\ applied[n].found.obj > 0

\* The place (from 1) of record k of object o in the order of apply_relocations.
PlaceOf(o, k) ==
    FirstIndex(RelocationOrder(objects), LAMBDA t : t = <<o, k>>)

\* A record with a symbol that is weak in its object and defined nowhere.
WeakUndefined(o, rel) ==
    /\ rel.sym # 0
    /\ rel.sym < Len(objects[o + 1].syms)
    /\ objects[o + 1].syms[rel.sym + 1].sym.bind = "Weak"
    /\ Holders(objects, IF rel.type = "Copy" THEN {o} ELSE {},
               SymbolName(objects, o, rel.sym + 1)) = {}

\* No record applied after the one at place n of the log stored into the
\* bytes that one stored.
NotOverwritten(n) ==
    \A j \in (n + 1)..Len(applied) :
        \/ applied[j].store = <<>>
        \/ applied[n].store = <<>>
        \/ applied[j].store[1] + Len(applied[j].store[2]) <= applied[n].store[1]
        \/ applied[n].store[1] + Len(applied[n].store[2]) <= applied[j].store[1]

\* What apply_relocations did at place n with such a record, if it came
\* that far: no UndefinedSymbol error, and the value stored is 0, or the
\* addend.
WeakUndefinedApplied(o, rel, n) ==
    /\ ~(Len(applied) = n - 1 /\ last.res = Err("UndefinedSymbol"))
    /\ (Len(applied) >= n - 1 /\ rel.type \in {"GlobDat", "JumpSlot", "_64"})
          => /\ Len(applied) >= n
             /\ applied[n].found = Undefined
             /\ applied[n].store
                   = <<objects[o + 1].base + rel.offset,
                       ToLeBytes(IF rel.type = "_64" THEN rel.addend ELSE 0, 8)>>
             /\ (last.res.ok /\ NotOverwritten(n))
                   => ReadBytes(pages, mem, objects[o + 1].base + rel.offset, 8)
                         = ToLeBytes(IF rel.type = "_64" THEN rel.addend ELSE 0, 8)

\* C10: a relocation with a symbol (index not 0) that no loaded object
\* defines and that is Weak in the relocating object raises no error:
\* relocation goes on with the undefined resolution, of value 0, so that an
\* R_X86_64_GLOB_DAT or R_X86_64_JUMP_SLOT record writes 0 at its target
\* and an R_X86_64_64 record the addend.
C10_WeakUndefined ==
    last.op = "apply_relocations"
        => \A o \in 0..(Len(objects) - 1) :
              \A k \in DOMAIN objects[o + 1].rels :
                  WeakUndefined(o, objects[o + 1].rels[k])
                      => WeakUndefinedApplied(o, objects[o + 1].rels[k], PlaceOf(o, k))

\* The executable's R_X86_64_64 record for its weak f, which nothing
\* defines, stored the addend 5, and the records after it were applied.
C10_Witness ==
    /\ last.op = "apply_relocations"
    /\ last.res.ok
    /\ Len(objects) = 3
    /\ WeakUndefined(0, objects[1].rels[1])
    /\ objects[1].rels[1].type = "_64"
    /\ ReadBytes(pages, mem, objects[1].base + DataAddr, 8) = <<5, 0, 0, 0, 0, 0, 0, 0>>
    /\ Len(applied) = Len(RelocationOrder(objects))

(***************************************************************************)
(* What apply_relocations leaves in memory.                                *)
(***************************************************************************)
\* The memory after the stores of a log, in its order.
RECURSIVE ReplayLog(_, _, _)
ReplayLog(pg, m, log) ==
    IF log = <<>> THEN m
    ELSE ReplayLog(pg,
                   IF Head(log).store = <<>> THEN m
                   ELSE WriteBytes(pg, m, Head(log).store[1], Head(log).store[2]),
                   Tail(log))

\* A record with a symbol that is not weak in its object and defined nowhere.
StrongUndefined(o, rel) ==
    /\ rel.sym # 0
    /\ rel.sym < Len(objects[o + 1].syms)
    /\ objects[o + 1].syms[rel.sym + 1].sym.bind # "Weak"
    /\ Holders(objects, IF rel.type = "Copy" THEN {o} ELSE {},
               SymbolName(objects, o, rel.sym + 1)) = {}

\* What a step of apply_relocations does with such a record at place n, if
\* it comes that far: it ends there with UndefinedSymbol, the memory is
\* what the records before it stored, and the process is gone.
StrongUndefinedStep(n) ==
    Len(applied') >= n - 1
        => /\ Len(applied') = n - 1
           /\ last'.res = Err("UndefinedSymbol")
           /\ phase' = "Failed"
           /\ mem' = ReplayLog(pages, mem, applied')

\* C11: a relocation with a symbol (index not 0) that no loaded object
\* defines and whose binding in the relocating object is not Weak makes
\* apply_relocations return UndefinedSymbol: nothing is written for the
\* record, no later record is applied, and there is no Relocated process.
C11_StrongUndefined ==
    [][last'.op = "apply_relocations"
          => \A o \in 0..(Len(objects) - 1) :
                \A k \in DOMAIN objects[o + 1].rels :
                    StrongUndefined(o, objects[o + 1].rels[k])
                        => StrongUndefinedStep(PlaceOf(o, k))]_vars

\* The executable's record for its global f, which nothing defines, ended
\* apply_relocations after the one record of libc had been applied.
C11_Witness ==
    /\ phase = "Failed"
    /\ last.op = "apply_relocations"
    /\ last.res = Err("UndefinedSymbol")
    /\ Len(objects) = 3
    /\ StrongUndefined(0, objects[1].rels[1])
    /\ Len(applied) = 1

\* The 64-bit word at offset off of object o (from 0), as its bytes.
WordAt(o, off) ==
    ReadBytes(pages, mem, objects[o + 1].base + off, 8)

\* apply_relocations has just returned Ok.
JustRelocated ==
    last.op = "apply_relocations" /\ last.res.ok

\* After a successful apply_relocations the word at the target of every
\* Relative record is base + addend, whatever other records there are.
C12_RelativeWordAlways ==
    JustRelocated
        => \A o \in 0..(Len(objects) - 1) :
              \A k \in DOMAIN objects[o + 1].rels :
                  objects[o + 1].rels[k].type = "Relative"
                      => WordAt(o, objects[o + 1].rels[k].offset)
                            = ToLeBytes(objects[o + 1].base + objects[o + 1].rels[k].addend, 8)

\* C12: after a successful apply_relocations, for every R_X86_64_RELATIVE
\* record with addend a and offset f of every object o, the record stored
\* o.base + a at o.base + f, and the 64-bit word there is o.base + a
\* provided no record applied after it stored into that word.
C12_RelativeWord ==
    JustRelocated
        => \A o \in 0..(Len(objects) - 1) :
              \A k \in DOMAIN objects[o + 1].rels :
                  objects[o + 1].rels[k].type = "Relative"
                      => /\ applied[PlaceOf(o, k)].store
                               = <<objects[o + 1].base + objects[o + 1].rels[k].offset,
                                   ToLeBytes(objects[o + 1].base
                                             + objects[o + 1].rels[k].addend, 8)>>
                         /\ NotOverwritten(PlaceOf(o, k))
                               => WordAt(o, objects[o + 1].rels[k].offset)
                                     = ToLeBytes(objects[o + 1].base
                                                 + objects[o + 1].rels[k].addend, 8)

\* The executable's Relative record was applied, among records of other
\* types in the executable and in libc, and its word is base + 5.
C12_Witness ==
    /\ JustRelocated
    /\ Len(objects) = 3
    /\ objects[1].rels[1] = Rela("Relative", 0, DataAddr, 5)
    /\ WordAt(0, DataAddr) = ToLeBytes(objects[1].base + 5, 8)
    /\ objects[1].base > 5

\* The symbol a record of object o with a symbol resolves to, by the files'
\* symbol tables: no _64 record leaves its object out.
ResolutionOf(o, rel) ==
    FirstDefined(objects, {}, SymbolName(objects, o, rel.sym + 1))

\* o'.base + v + a for the resolution r = (o', v) and the addend of rel.
ValuePlusAddend(rel, r) ==
    ToLeBytes(objects[r.obj + 1].base + r.sym.sym.value + rel.addend, 8)

\* The _64 records with a symbol that resolves.
Resolving64(o, rel) ==
    /\ rel.type = "_64"
    /\ rel.sym # 0
    /\ ResolutionOf(o, rel).defined

\* After a successful apply_relocations the word at the target of every
\* _64 record whose symbol resolves is o'.base + v + a.
C13_Word64Always ==
    JustRelocated
        => \A o \in 0..(Len(objects) - 1) :
              \A k \in DOMAIN objects[o + 1].rels :
                  Resolving64(o, objects[o + 1].rels[k])
                      => WordAt(o, objects[o + 1].rels[k].offset)
                            = ValuePlusAddend(objects[o + 1].rels[k],
                                              ResolutionOf(o, objects[o + 1].rels[k]))

\* What the log and the memory hold of such a record, at place n.
Word64Stored(o, rel, n) ==
    /\ applied[n].store = <<objects[o + 1].base + rel.offset,
                            ValuePlusAddend(rel, ResolutionOf(o, rel))>>
    /\ NotOverwritten(n)
          => WordAt(o, rel.offset) = ValuePlusAddend(rel, ResolutionOf(o, rel))

\* C13: after a successful apply_relocations, for every R_X86_64_64 record
\* with addend a whose symbol resolves to value v in object o', the record
\* stored o'.base + v + a at its target (its object's base plus its
\* offset), and the 64-bit word there is o'.base + v + a provided no record
\* applied after it stored into that word.
C13_Word64 ==
    JustRelocated
        => \A o \in 0..(Len(objects) - 1) :
              \A k \in DOMAIN objects[o + 1].rels :
                  Resolving64(o, objects[o + 1].rels[k])
                      => Word64Stored(o, objects[o + 1].rels[k], PlaceOf(o, k))

\* The _64 record of libc for g, defined by the executable, holds the
\* executable's base plus the value of g plus the addend 3.
C13_Witness ==
    /\ JustRelocated
    /\ Len(objects) = 3
    /\ objects[3].rels[1].type = "_64"
    /\ ResolutionOf(2, objects[3].rels[1]).obj = 0
    /\ WordAt(2, DataAddr + 4) = ToLeBytes(objects[1].base + DataAddr + 24 + 3, 8)

\* Every record of every object has exactly one entry in the log, and the
\* log holds nothing else.
EachRecordOnce ==
    /\ \A o \in 0..(Len(objects) - 1) :
          \A k \in DOMAIN objects[o + 1].rels :
              Cardinality({n \in DOMAIN applied :
                              applied[n].obj = o /\ applied[n].rel = k}) = 1
    /\ \A n \in DOMAIN applied :
          /\ applied[n].obj \in 0..(Len(objects) - 1)
          /\ applied[n].rel \in DOMAIN objects[applied[n].obj + 1].rels

\* The log runs from the object loaded last to the one loaded first, and
\* within one object in the order of its rels list.
ReverseLoadOrder ==
    \A n \in DOMAIN applied :
        \A m \in (n + 1)..Len(applied) :
            \/ applied[n].obj > applied[m].obj
            \/ applied[n].obj = applied[m].obj /\ applied[n].rel < applied[m].rel

\* A step that applies a record is the apply_relocations of a process whose
\* TLS is allocated, and it leaves that phase.
AppliedWhileTlsAllocated ==
    applied' # applied
        => /\ phase = "TLSAllocated"
           /\ last'.op = "apply_relocations"
           /\ phase' # "TLSAllocated"
           /\ applied = <<>>

\* C14: in a successful apply_relocations every record of every object is
\* applied exactly once, the objects in reverse load order and the records
\* of one object in list order; no record is applied before TLS allocation
\* or after the transition to Relocated.
C14_RelocationOrder ==
    /\ [](JustRelocated => EachRecordOnce /\ ReverseLoadOrder)
    /\ [](phase = "Loading" => applied = <<>>)
    /\ [][AppliedWhileTlsAllocated]_vars

\* The record of libc, loaded last, was applied before the two records of
\* the executable, loaded first.
C14_Witness ==
    /\ JustRelocated
    /\ Len(objects) = 3
    /\ Len(applied) = 3
    /\ applied[1].obj = 2
    /\ applied[2].obj = 0 /\ applied[2].rel = 1
    /\ applied[3].obj = 0 /\ applied[3].rel = 2

\* The objects (from 1) with a PT_TLS segment of nonzero memsz.
TlsObjects ==
    {o \in DOMAIN objects : TlsNeeded(objects[o]) > 0}

\* Where the slot of object o starts: tcb_addr - offsets[o.base].
SlotOf(o) ==
    tls.tcb_addr - tls.offsets[objects[o].base]

\* The slot of object o holds the filesz bytes found at o.base + vaddr, and
\* zeros from there to memsz, for its PT_TLS header ph.
TemplateInSlot(o, ph) ==
    /\ ReadBytes(pages, mem, SlotOf(o), ph.filesz)
          = ReadBytes(pages, mem, objects[o].base + ph.vaddr, ph.filesz)
    /\ \A i \in ph.filesz..(ph.memsz - 1) :
          ReadBytes(pages, mem, SlotOf(o) + i, 1) = <<0>>

TlsInitialized ==
    phase \in {"TLSInitialized", "Protected", "Started"}

\* C15: after initialize_tls, for every object with a PT_TLS segment of
\* nonzero memsz the filesz bytes of its template (read at o.base + vaddr)
\* are in the TLS block at tcb_addr - offsets[o.base], and the
\* memsz - filesz bytes after them are zero; this holds of all the objects
\* in the same state.
C15_TlsTemplatesAlways ==
    TlsInitialized
        => \A o \in TlsObjects :
              TemplateInSlot(o, SegmentOfType(objects[o].file, "TLS").val)

\* No PT_TLS header of the objects has more filesz than memsz.
TemplatesFit ==
    \A o \in TlsObjects :
        SegmentOfType(objects[o].file, "TLS").val.filesz
            <= SegmentOfType(objects[o].file, "TLS").val.memsz

\* The slots hold the templates when every template fits its slot.
TlsTemplatesThatFit ==
    (TlsInitialized /\ TemplatesFit)
        => \A o \in TlsObjects :
              TemplateInSlot(o, SegmentOfType(objects[o].file, "TLS").val)

\* Two objects have their templates in two different slots of the block.
TlsTemplatesInTwoSlots ==
    /\ phase = "TLSInitialized"
    /\ last.op = "initialize_tls"
    /\ TemplatesFit
    /\ Cardinality(TlsObjects) = 2
    /\ \A o \in TlsObjects :
          /\ ReadBytes(pages, mem, SlotOf(o), 8) # <<0, 0, 0, 0, 0, 0, 0, 0>>
          /\ ReadBytes(pages, mem, SlotOf(o) + 8, 8) = <<0, 0, 0, 0, 0, 0, 0, 0>>
    /\ \E o \in TlsObjects, q \in TlsObjects : SlotOf(q) = SlotOf(o) + 16

\* The sum of the memsz of the PT_TLS segments of objects 1..n.
RECURSIVE SumMemsz(_)
SumMemsz(phs) ==
    IF phs = <<>> THEN 0
    ELSE (IF Head(phs).type = "TLS" THEN Head(phs).memsz ELSE 0) + SumMemsz(Tail(phs))

RECURSIVE TlsMemszUpTo(_)
TlsMemszUpTo(n) ==
    IF n = 0 THEN 0
    ELSE TlsMemszUpTo(n - 1) + SumMemsz(disk[objects[n].file].phdrs)

\* The block is storage_space + 704 bytes and the TCB follows the storage.
TlsLayout(storage_space) ==
    /\ tls.block.len = storage_space + 704
    /\ tls.tcb_addr = tls.block.ptr + storage_space
    /\ \A a \in tls.block.ptr..(tls.block.ptr + tls.block.len - 1) :
          PageOf(a) \in DOMAIN pages

\* The TLS record changes in allocate_tls only.
TlsSetOnce ==
    tls' # tls => phase = "Loading" /\ last'.op = "allocate_tls" /\ tls = NoTls

\* C16: allocate_tls creates a block of storage_space + 704 bytes, where
\* storage_space is the sum of the memsz of all TLS segments, with tcb_addr
\* at the block's start plus storage_space; no later phase changes the
\* block's length or place, tcb_addr or the offsets map.
C16_TlsBlock ==
    /\ [](phase \in {"TLSAllocated", "Relocated", "TLSInitialized", "Protected", "Started"}
            => TlsLayout(TlsMemszUpTo(Len(objects))))
    /\ [][TlsSetOnce]_vars

\* A started process whose block holds two slots of 16 bytes and the TCB.
C16_Witness ==
    /\ phase = "Started"
    /\ tls.block.len = 32 + 704
    /\ tls.tcb_addr = tls.block.ptr + 32
    /\ Cardinality(DOMAIN tls.offsets) = 2

\* The words of stack st for the options opts, where envp starts after
\* word e, auxv after word x and the AT_NULL pair after word n.
StackLayout(st, opts, e, x, n) ==
    /\ st[1] = Len(opts.args)
    /\ \A i \in DOMAIN opts.args : st[1 + i] = opts.args[i]
    /\ st[e] = 0
    /\ \A i \in DOMAIN opts.env : st[e + i] = opts.env[i]
    /\ st[x] = 0
    /\ \A i \in DOMAIN opts.auxv :
          /\ st[x + 2 * i - 1] = opts.auxv[i].typ
          /\ st[x + 2 * i] = opts.auxv[i].value
    /\ st[n + 1] = 0 /\ st[n + 2] = 0
    /\ IF (n + 2) % 2 = 1
       THEN Len(st) = n + 3 /\ st[n + 3] = 0
       ELSE Len(st) = n + 2
    /\ Len(st) % 2 = 0

\* C17: the stack start hands over is, for every StartOptions: argc, the
\* argc argv pointers in order, a zero word, the envp pointers, a zero word,
\* one (type, value) pair per auxv entry, the pair (AT_NULL, 0), and one
\* zero word more exactly when the count so far is odd; its length is even.
C17_BuildStack ==
    (phase = "Started" /\ last.op = "start")
        => StackLayout(cpu.stack, last.arg,
                       Len(last.arg.args) + 2,
                       Len(last.arg.args) + Len(last.arg.env) + 3,
                       Len(last.arg.args) + Len(last.arg.env) + 3 + 2 * Len(last.arg.auxv))

\* A stack without arguments and with two auxv pairs: nine words and the
\* padding word.
C17_Witness ==
    /\ phase = "Started"
    /\ last.op = "start"
    /\ last.arg.args = <<>>
    /\ Len(last.arg.auxv) = 2
    /\ cpu.stack = <<0, 0, 0, 6, 4096, 9, 16, 0, 0, 0>>

\* What start ran: the stack was built, then %fs was set, once, and the
\* jump came right after it and last.
FsThenJump(ran) ==
    /\ Cardinality({i \in DOMAIN ran : ran[i] = "set_fs"}) = 1
    /\ \E i \in DOMAIN ran :
          /\ ran[i] = "set_fs"
          /\ \E j \in 1..(i - 1) : ran[j] = "build_stack"
          /\ i + 1 = Len(ran)
          /\ ran[i + 1] = "jmp"

\* The registers change in start only, from a protected process.
RegistersSetByStart ==
    cpu' # cpu => phase = "Protected" /\ phase' = "Started" /\ last'.op = "start"

\* C18: in every run %fs is installed exactly once, with tls.tcb_addr, after
\* the initial stack has been built and immediately before the jump to the
\* entry point exec.base + entry_point; no earlier phase sets %fs and
\* nothing runs between the installation and the jump.
C18_FsInstalledOnce ==
    /\ [](phase # "Started" => cpu.fs = 0 /\ cpu.ran = <<>>)
    /\ [](phase = "Started"
            => /\ cpu.fs = tls.tcb_addr
               /\ FsThenJump(cpu.ran)
               /\ cpu.rip = objects[last.arg.exec_index + 1].base
                            + disk[objects[last.arg.exec_index + 1].file].entry_point)
    /\ [][RegistersSetByStart]_vars

\* A started process with two TLS slots below the TCB that %fs points to.
C18_Witness ==
    /\ phase = "Started"
    /\ cpu.fs = tls.block.ptr + 32
    /\ cpu.fs # 0
    /\ cpu.rip = objects[1].base + 16
    /\ cpu.ran = <<"build_stack", "set_fs", "jmp">>

\* The calls of a run, in the order of the phases.
RunOrder ==
    <<"load_object_and_dependencies", "allocate_tls", "apply_relocations",
      "initialize_tls", "adjust_protections", "start">>

\* A call of the run is the first of RunOrder after new, or the one that
\* follows the call before it, which returned no error.
NextInRunOrder ==
    last' # last
        => \E i \in DOMAIN RunOrder :
              /\ last'.op = RunOrder[i]
              /\ IF i = 1 THEN last.op = "new"
                 ELSE last.op = RunOrder[i - 1] /\ last.res.ok

\* C19: the run command drives the process through every phase in order
\* with none omitted: load_object_and_dependencies, then TLS allocation,
\* then relocation, then TLS initialization, then protection, then start;
\* an error in loading, relocation or protection stops the sequence before
\* any later phase runs.
C19_RunInOrder ==
    [][NextInRunOrder]_vars

\* The places (from 2) of the search path, those collected from DT_RPATH
\* and DT_RUNPATH, whose directory holds the name.
RunpathHolders(name) ==
    {i \in 2..Len(search_path) : Canonicalize(Join(search_path[i], name)).ok}

\* get_object took the copy of the name in the first RPATH/RUNPATH
\* directory that holds it.
TookRunpathCopy(name, i) ==
    objects'[last'.res.val.index + 1].path
        = Canonicalize(Join(search_path[i], name)).val

\* C20: dependency names are searched along the DT_RPATH/DT_RUNPATH
\* directories (with $ORIGIN replaced) first and /usr/lib/x86_64-linux-gnu
\* after them: when a name is both in an RPATH/RUNPATH directory already
\* collected from a loaded object and in /usr/lib/x86_64-linux-gnu,
\* get_object resolves it to the copy of the first RPATH/RUNPATH directory
\* that holds it.
C20_RunpathFirst ==
    [][(/\ last'.op = "get_object"
        /\ last'.res.ok
        /\ RunpathHolders(last'.arg) # {}
        /\ Canonicalize(Join(DefaultLibDir, last'.arg)).ok)
           => TookRunpathCopy(last'.arg,
                              CHOOSE i \in RunpathHolders(last'.arg) :
                                  \A j \in RunpathHolders(last'.arg) : i <= j)]_vars

\* A load_object that returned an error left the object list and the path
\* index as they were.
LoadObjectErrorKeepsObjects ==
    [][(last'.op = "load_object" /\ ~last'.res.ok /\ phase' = "Loading")
           => objects' = objects /\ objects_by_path' = objects_by_path]_vars

\* C21: if load_object(path) returns an error at any step, nothing is
\* partially committed: the object list, the path index and the search
\* path are exactly as they were before the call, and the failed object is
\* not in the object list.
C21_LoadObjectAllOrNothing ==
    [][(last'.op = "load_object" /\ ~last'.res.ok /\ phase' = "Loading")
           => /\ objects' = objects
              /\ objects_by_path' = objects_by_path
              /\ search_path' = search_path]_vars

\* The places in the order of apply_relocations of the records whose
\* symbol number is no index of their object's symbol list.
UnknownSymbolPlaces ==
    {n \in DOMAIN RelocationOrder(objects) :
        objects[RelocationOrder(objects)[n][1] + 1].rels[RelocationOrder(objects)[n][2]].sym
            >= Len(objects[RelocationOrder(objects)[n][1] + 1].syms)}

\* C22: a relocation whose symbol index is not a valid index into its
\* object's dynamic symbol list makes apply_relocations return the error
\* value UnknownSymbolNumber to its caller; the loader does not abort.
C22_UnknownSymbolNumber ==
    [][(/\ last'.op = "apply_relocations"
        /\ ~last'.res.ok
        /\ Len(applied') + 1 \in UnknownSymbolPlaces)
           => /\ last'.res = Err("UnknownSymbolNumber")
              /\ phase' # "Aborted"]_vars

\* C23: if load_object_and_dependencies(root) returns an error because a
\* dependency cannot be resolved on the search path or fails to load,
\* nothing loaded during that call is committed: the object list and the
\* path index equal their values before the call.
C23_DependenciesAllOrNothing ==
    [][(/\ last'.op = "load_object_and_dependencies"
        /\ ~last'.res.ok
        /\ phase' = "Loading")
           => /\ objects' = objects
              /\ objects_by_path' = objects_by_path]_vars

\* The places in the object list of the objects a step added.
Added ==
    (Len(objects) + 1)..Len(objects')

\* The objects a call added are files with pairwise different canonical
\* paths, and those after the first (the root) were not in the path index.
EachPathLoadedOnce ==
    /\ \A i \in Added : objects'[i].path \in DOMAIN FileAt
    /\ \A i \in Added : \A j \in Added : i # j => objects'[i].path # objects'[j].path
    /\ \A i \in Added :
          i > Len(objects) + 1 => objects'[i].path \notin DOMAIN objects_by_path
    /\ Len(objects') - Len(objects) <= Cardinality(DOMAIN FileAt)

\* C24: load_object_and_dependencies terminates for every finite set of
\* files, DT_NEEDED graphs with cycles or an object that needs itself or the
\* root included: it returns having loaded each canonical path at most
\* once during the call, so no level after the one that brought no new
\* object is run with anything to load.
C24_LoadsEachPathOnce ==
    [][last'.op = "load_object_and_dependencies" => EachPathLoadedOnce]_vars

\* The call returned on a graph with a cycle through the root and an object
\* that needs itself: prog needs libc, libc needs libbar, libbar needs
\* libbar and prog.
C24_Witness ==
    /\ last.op = "load_object_and_dependencies"
    /\ last.res.ok
    /\ Len(objects) = 3
    /\ objects[1].file = "prog" /\ objects[2].file = "libc" /\ objects[3].file = "bar"
    /\ Targets(Loader, 2) = <<2, 0>>

\* The record at which an apply_relocations that returned an error stopped.
FailedRecord ==
    objects[RelocationOrder(objects)[Len(applied') + 1][1] + 1].rels[
        RelocationOrder(objects)[Len(applied') + 1][2]]

\* C25: a relocation with symbol index 0 is bound to no symbol: it resolves
\* to Undefined without lookup and without error in every object, one with
\* an empty dynamic symbol list included, so an R_X86_64_RELATIVE record with
\* symbol index 0 is always applied; apply_relocations stops at a record
\* with symbol index 0 only for a relocation type it does not implement.
C25_SymbolZero ==
    [][(/\ last'.op = "apply_relocations"
        /\ ~last'.res.ok
        /\ FailedRecord.sym = 0)
           => /\ FailedRecord.type # "Relative"
              /\ last'.res = Err("UnimplementedRelocation")]_vars

\* The same of the objects whose dynamic symbol list is not empty.
SymbolZeroWithSymbols ==
    [][(/\ last'.op = "apply_relocations"
        /\ ~last'.res.ok
        /\ FailedRecord.sym = 0
        /\ objects[RelocationOrder(objects)[Len(applied') + 1][1] + 1].syms # <<>>)
           => /\ FailedRecord.type # "Relative"
              /\ last'.res = Err("UnimplementedRelocation")]_vars

\* What a Copy record logged at place n by object o stored, r being the
\* first definition of its name outside o: the size bytes of r found at
\* its address when the records before it had been applied; no byte when
\* there is no definition.
CopyStored(n, o, rel, r) ==
    IF rel.sym # 0 /\ r.defined
    THEN applied'[n].store
            = <<objects[o + 1].base + rel.offset,
                ReadBytes(pages, ReplayLog(pages, mem, SubSeq(applied', 1, n - 1)),
                          objects[r.obj + 1].base + r.sym.sym.value, r.sym.sym.size)>>
    ELSE applied'[n].store = <<>> \/ applied'[n].store[2] = <<>>

CopyRecordsStored ==
    \A n \in DOMAIN applied' :
        objects[applied'[n].obj + 1].rels[applied'[n].rel].type = "Copy"
            => CopyStored(n, applied'[n].obj,
                          objects[applied'[n].obj + 1].rels[applied'[n].rel],
                          IF objects[applied'[n].obj + 1].rels[applied'[n].rel].sym = 0
                          THEN Undefined
                          ELSE FirstDefined(objects, {applied'[n].obj},
                                   SymbolName(objects, applied'[n].obj,
                                       objects[applied'[n].obj + 1].rels[applied'[n].rel].sym + 1)))

\* C26: applying an R_X86_64_COPY record whose symbol resolves to a
\* definition of size s at the loaded address src copies exactly s bytes
\* (the st_size of the definition found, not of the symbol wanted) from
\* [src, src+s) to [target, target+s) and changes no byte outside that
\* range; when the symbol is weak and undefined it copies no byte.
C26_CopyBytes ==
    [][last'.op = "apply_relocations"
           => /\ CopyRecordsStored
              /\ mem' = ReplayLog(pages, mem, applied')]_vars

\* The executable's Copy record for f, of size 4 there, copied the 8 bytes
\* of the f that libfoo defines.
C26_Witness ==
    /\ JustRelocated
    /\ Len(objects) = 3
    /\ objects[1].rels[1].type = "Copy"
    /\ objects[1].rels[1].sym = 1
    /\ objects[1].syms[2].sym.size = 4
    /\ applied[PlaceOf(0, 1)].found.defined
    /\ applied[PlaceOf(0, 1)].found.obj = 1
    /\ Len(applied[PlaceOf(0, 1)].store[2]) = 8
    /\ ReadBytes(pages, mem, objects[1].base + DataAddr, 8)
          = ReadBytes(pages, mem, objects[2].base + DataAddr + 8, 8)

\* What a TPOff64 record of object o logged at place n stored, r being the
\* first definition of its name: minus the TLS offset of the object of r,
\* plus the value of r, plus the addend; nothing when there is none.
TpoffStored(n, o, rel, r) ==
    IF r.defined
    THEN applied[n].store
            = <<objects[o + 1].base + rel.offset,
                ToLeBytes((0 - tls.offsets[objects[r.obj + 1].base])
                          + r.sym.sym.value + rel.addend, 8)>>
    ELSE applied[n].store = <<>>

\* C27: applying an R_X86_64_TPOFF64 record whose symbol resolves to a
\* definition in object d writes at the target the signed 64-bit value
\* -offsets[d.base] + sym.value + addend, the offset that of d and not of
\* the relocating object; when the symbol is not defined (symbol index 0 or
\* weak and undefined) the target is left as it is.
C27_Tpoff64 ==
    \A n \in DOMAIN applied :
        objects[applied[n].obj + 1].rels[applied[n].rel].type = "TPOff64"
            => TpoffStored(n, applied[n].obj,
                           objects[applied[n].obj + 1].rels[applied[n].rel],
                           IF objects[applied[n].obj + 1].rels[applied[n].rel].sym = 0
                           THEN Undefined
                           ELSE FirstDefined(objects, {},
                                    SymbolName(objects, applied[n].obj,
                                        objects[applied[n].obj + 1].rels[applied[n].rel].sym + 1)))

\* The executable, which has no TLS segment, stored -24 for the f of
\* libfoo: minus libfoo's offset 16, plus the value 0x2008, minus 0x2010.
C27_Witness ==
    /\ JustRelocated
    /\ Len(objects) = 3
    /\ objects[1].rels[1].type = "TPOff64"
    /\ objects[1].base \notin DOMAIN tls.offsets
    /\ applied[PlaceOf(0, 1)].found.obj = 1
    /\ tls.offsets[objects[2].base] = 16
    /\ WordAt(0, DataAddr) = <<232, 255, 255, 255, 255, 255, 255, 255>>

\* allocate_tls has run.
TlsAllocated ==
    tls # NoTls

\* C28: after allocate_tls, offsets has an entry for exactly the objects
\* that have a PT_TLS segment with nonzero memsz, and for each such object o
\* offsets[o.base] is the sum of the TLS memsz of the objects at load
\* indices up to and including o's.
C28_TlsOffsets ==
    TlsAllocated
        => /\ DOMAIN tls.offsets
                = {objects[o].base : o \in {q \in DOMAIN objects :
                                              SumMemsz(disk[objects[q].file].phdrs) > 0}}
           /\ \A o \in DOMAIN objects :
                 SumMemsz(disk[objects[o].file].phdrs) > 0
                     => tls.offsets[objects[o].base] = TlsMemszUpTo(o)

\* Five objects: libfoo (memsz 16) has the offset 16, libbar (a PT_TLS
\* segment of memsz 0) and libbaz have none, libc (memsz 24) has 40.
C28_Witness ==
    /\ phase = "TLSAllocated"
    /\ Len(objects) = 5
    /\ objects[2].file = "foo" /\ objects[3].file = "bar" /\ objects[5].file = "libc"
    /\ Cardinality(DOMAIN tls.offsets) = 2
    /\ tls.offsets[objects[2].base] = 16
    /\ tls.offsets[objects[5].base] = 40

\* The addresses of the TLS slot of object o: memsz bytes from
\* tcb_addr - offsets[o.base].
SlotAddrs(o) ==
    {a \in SlotOf(o) .. (SlotOf(o) + SumMemsz(disk[objects[o].file].phdrs) - 1) : TRUE}

\* The storage region below the TCB and the TCB header above it.
StorageRegion ==
    (tls.tcb_addr - (tls.block.len - TcbHeadSize)) .. (tls.tcb_addr - 1)

TcbHeader ==
    tls.tcb_addr .. (tls.tcb_addr + TcbHeadSize - 1)

\* C29: after allocate_tls the TLS slots of distinct TLS-bearing objects
\* are pairwise disjoint, each lies inside the storage region
\* [tcb_addr - storage_space, tcb_addr), together they cover that region
\* exactly, and no slot overlaps the TCB header.
C29_TlsSlots ==
    TlsAllocated
        => /\ \A o \in TlsObjects : \A q \in TlsObjects :
                 o # q => SlotAddrs(o) \cap SlotAddrs(q) = {}
           /\ \A o \in TlsObjects : SlotAddrs(o) \subseteq StorageRegion
           /\ UNION {SlotAddrs(o) : o \in TlsObjects} = StorageRegion
           /\ \A o \in TlsObjects : SlotAddrs(o) \cap TcbHeader = {}
           /\ tls.block.ptr = tls.tcb_addr - (tls.block.len - TcbHeadSize)

\* Two slots of different lengths below the TCB: libfoo's 16 bytes end at
\* the TCB and the 24 bytes of libc, loaded later, start the block.
C29_Witness ==
    /\ TlsAllocated
    /\ Cardinality(TlsObjects) = 2
    /\ \E o \in TlsObjects : \E q \in TlsObjects :
          /\ o < q
          /\ SlotAddrs(o) = (tls.tcb_addr - 16) .. (tls.tcb_addr - 1)
          /\ SlotAddrs(q) = tls.block.ptr .. (tls.tcb_addr - 17)
          /\ Cardinality(SlotAddrs(q)) = 24

\* The 64-bit word at offset off of the TCB, as its bytes.
TcbWordAt(off) ==
    ReadBytes(pages, mem, tls.tcb_addr + off, 8)

\* The header allocate_tls wrote: tcb and thread pointer are tcb_addr, dtv
\* and sysinfo are 0, then the two guards.
TcbHeaderIntact ==
    /\ TcbWordAt(0) = ToLeBytes(tls.tcb_addr, 8)
    /\ TcbWordAt(16) = ToLeBytes(tls.tcb_addr, 8)
    /\ TcbWordAt(8) = ToLeBytes(0, 8)
    /\ TcbWordAt(32) = ToLeBytes(0, 8)
    /\ TcbWordAt(40) = <<239, 190, 173, 222, 0, 0, 0, 0>>
    /\ TcbWordAt(48) = <<206, 250, 237, 254, 0, 0, 0, 0>>

\* Every byte that initialize_tls changed is below tcb_addr, in the slot of
\* an object, and is the byte of that object's template for its place.
TemplatesWrittenInSlots ==
    \A a \in DOMAIN mem \cup DOMAIN mem' :
        ReadByte(pages, mem', a) # ReadByte(pages, mem, a)
            => /\ a < tls.tcb_addr
               /\ \E o \in TlsObjects :
                     /\ a \in SlotAddrs(o)
                     /\ ReadByte(pages, mem', a)
                           = ReadByte(pages, mem,
                                      objects[o].base
                                      + SegmentOfType(objects[o].file, "TLS").val.vaddr
                                      + (a - SlotOf(o)))

\* C30: after initialize_tls the TCB header written by allocate_tls is
\* intact (the words at TCB offsets 0 and 16 are tcb_addr, those at 8 and
\* 32 are 0, the stack guard at 40 is 0xDEADBEEF, the pointer guard at 48
\* is 0xFEEDFACE), and copying an object's TLS template writes only inside
\* that object's own slot and never at or above tcb_addr.
C30_TcbIntact ==
    /\ [](TlsInitialized => TcbHeaderIntact)
    /\ [][(last'.op = "initialize_tls" /\ last'.res.ok) => TemplatesWrittenInSlots]_vars

\* With no template longer than its slot the header stays and the copies
\* stay in their slots.
TcbIntactWhenTemplatesFit ==
    /\ []((TlsInitialized /\ TemplatesFit) => TcbHeaderIntact)
    /\ [][(last'.op = "initialize_tls" /\ last'.res.ok /\ TemplatesFit)
            => TemplatesWrittenInSlots]_vars

\* The TCB's first word after initialize_tls is bytes 16..23 of libfoo's
\* template.
TcbOverwritten ==
    /\ TlsInitialized
    /\ TcbWordAt(0) = <<177, 178, 179, 180, 181, 182, 183, 184>>

\* The pages of the mapping a segment owns.
MapPages(seg) ==
    PagesOf(seg.map.addr, seg.map.len)

\* READ for R, WRITE for W, EXECUTE for X, nothing without a flag.
FlagsProtection(flags) ==
    (IF "Read" \in flags THEN {"READ"} ELSE {})
    \cup (IF "Write" \in flags THEN {"WRITE"} ELSE {})
    \cup (IF "Execute" \in flags THEN {"EXECUTE"} ELSE {})

\* Every segment mapping is readable, writable and executable.
SegmentsAllRwx ==
    \A i \in DOMAIN AllSegments(objects) :
        \A n \in MapPages(AllSegments(objects)[i]) :
            n \in DOMAIN pages /\ pages[n].prot = {"READ", "WRITE", "EXECUTE"}

\* Segment i (in the order of adjust_protections) has the protection of its
\* flags on every page of its mapping.
ProtectedByFlags(i) ==
    \A n \in MapPages(AllSegments(objects)[i]) :
        pages[n].prot = FlagsProtection(AllSegments(objects)[i].flags)

\* No segment protected after segment i has a page of i's mapping.
NoLaterSegmentOnPages(i) ==
    \A j \in DOMAIN AllSegments(objects) :
        j > i => MapPages(AllSegments(objects)[j]) \cap MapPages(AllSegments(objects)[i]) = {}

\* A step of adjust_protections: it fails when the primitive refuses a page
\* of a segment's mapping, the error is what it returns, and the process is
\* Protected only when it returns Ok.
ProtectErrorReturned ==
    last'.op = "adjust_protections"
        => /\ (\E i \in DOMAIN AllSegments(objects) :
                  MapPages(AllSegments(objects)[i]) \cap last'.arg.denied # {})
                 => last'.res = Err("region::Error")
           /\ (phase' = "Protected") = last'.res.ok
           /\ ~last'.res.ok => phase' = "Failed"

ProtectFailed ==
    /\ phase = "Failed"
    /\ last.op = "adjust_protections"
    /\ pages[MapStartPage].prot = {"READ", "EXECUTE"}
    /\ pages[MapStartPage + 2].prot = {"READ", "WRITE", "EXECUTE"}

\* The program header that segment k of object o was made from: the k-th
\* PT_LOAD header of nonzero memsz of the object's file.
HeaderOf(o, k) ==
    SelectSeq(disk[objects[o].file].phdrs,
              LAMBDA ph : ph.type = "Load" /\ ph.memsz > 0)[k]

\* The pages of [base + vaddr_range.start, base + vaddr_range.end).
RangePages(o, k) ==
    PagesOf(objects[o].base + objects[o].segments[k].vaddr_range[1],
            objects[o].segments[k].vaddr_range[2] - objects[o].segments[k].vaddr_range[1])

\* The pages of the file-backed part of the range, up to vaddr + filesz.
FilePages(o, k) ==
    PagesOf(objects[o].base + objects[o].segments[k].vaddr_range[1],
            HeaderOf(o, k).vaddr + HeaderOf(o, k).filesz
                - objects[o].segments[k].vaddr_range[1])

\* C32 as stated: for every Segment of every loaded object the mapping the
\* segment owns covers the whole range [base + vaddr_range.start,
\* base + vaddr_range.end) rounded to pages, for every combination of
\* filesz and memsz.
C32_MapCoversRange ==
    \A o \in DOMAIN objects : \A k \in DOMAIN objects[o].segments :
        RangePages(o, k) \subseteq MapPages(objects[o].segments[k])

\* C32: for every Segment of every loaded object the mapping the segment
\* owns covers exactly the file-backed part [base + vaddr_range.start,
\* base + ph.vaddr + ph.filesz) of the range, rounded to pages, and every
\* page of the whole range [base + vaddr_range.start, base + vaddr_range.end)
\* is mapped, for every combination of filesz and memsz.
C32_MapCoversFilePart ==
    \A o \in DOMAIN objects : \A k \in DOMAIN objects[o].segments :
        /\ MapPages(objects[o].segments[k]) = FilePages(o, k)
        /\ RangePages(o, k) \subseteq DOMAIN pages

\* A segment of filesz 32 and memsz 4112: its mapping is the page of its
\* file bytes, and the page its zero tail reaches is the reservation's.
C32_Witness ==
    /\ Len(objects) = 1
    /\ Len(objects[1].segments) = 2
    /\ HeaderOf(1, 2).filesz = 32
    /\ HeaderOf(1, 2).memsz = PageSize + 16
    /\ MapPages(objects[1].segments[2]) = {MapStartPage + 2}
    /\ RangePages(1, 2) = {MapStartPage + 2, MapStartPage + 3}
    /\ pages[MapStartPage + 3].file = "anon"

\* Where segment k of object o starts: o.base + s.vaddr_range.start.
SegStart(o, k) ==
    objects[o].base + objects[o].segments[k].vaddr_range[1]

\* The start is on a page boundary and the padding is vaddr mod 4096.
SegAligned(o, k) ==
    /\ SegStart(o, k) % PageSize = 0
    /\ objects[o].segments[k].padding = HeaderOf(o, k).vaddr % PageSize

\* The page at the start maps the object's file from ph.offset - padding.
SegOffset(o, k) ==
    /\ pages[PageOf(SegStart(o, k))].file = objects[o].file
    /\ pages[PageOf(SegStart(o, k))].off
          = HeaderOf(o, k).offset - objects[o].segments[k].padding

\* The byte at start + padding is the byte at file offset ph.offset.
SegFirstByte(o, k) ==
    ReadByte(pages, mem, SegStart(o, k) + objects[o].segments[k].padding)
        = FileByte(objects[o].file, HeaderOf(o, k).offset)

\* No segment of object o mapped after segment k has a page of its range or
\* of its mapping among the pages of k's mapping.
NoLaterSegmentOver(o, k) ==
    \A j \in DOMAIN objects[o].segments :
        j > k => (RangePages(o, j) \cup MapPages(objects[o].segments[j]))
                    \cap MapPages(objects[o].segments[k]) = {}

\* C33 as stated: for every segment s of every loaded object o, for all
\* program-header values, o.base + s.vaddr_range.start is a multiple of
\* 4096, s.padding = ph.vaddr mod 4096, the mapped file offset is
\* ph.offset - s.padding, and the byte at o.base + s.vaddr_range.start +
\* s.padding is the byte at file offset ph.offset (before any relocation).
C33_SegmentBytesAlways ==
    Len(applied) = 0
        => \A o \in DOMAIN objects : \A k \in DOMAIN objects[o].segments :
              SegAligned(o, k) /\ SegOffset(o, k) /\ SegFirstByte(o, k)

\* C33: for every segment s of every loaded object o, for all
\* program-header values, o.base + s.vaddr_range.start is a multiple of
\* 4096 and s.padding = ph.vaddr mod 4096; and where no segment of o mapped
\* after s has a page of its range or of its mapping among the pages of s's
\* mapping, the mapped file offset is ph.offset - s.padding and, if
\* ph.filesz is not 0, the byte at o.base + s.vaddr_range.start + s.padding
\* is the byte at file offset ph.offset (before any relocation).
C33_SegmentBytes ==
    Len(applied) = 0
        => \A o \in DOMAIN objects : \A k \in DOMAIN objects[o].segments :
              /\ SegAligned(o, k)
              /\ NoLaterSegmentOver(o, k)
                    => /\ SegOffset(o, k)
                       /\ HeaderOf(o, k).filesz # 0 => SegFirstByte(o, k)

\* A segment of vaddr 0x2010: padding 16, the page maps the file from
\* offset 0x1000, and the byte at base + 0x2010 is the file's byte at
\* 0x1010 (177).
C33_Witness ==
    /\ Len(objects) = 1
    /\ Len(objects[1].segments) = 2
    /\ HeaderOf(1, 2).vaddr = DataAddr + 16
    /\ HeaderOf(1, 2).filesz = 16
    /\ objects[1].segments[2].padding = 16
    /\ SegStart(1, 2) = (MapStartPage + 2) * PageSize
    /\ pages[MapStartPage + 2].off = DataOffset
    /\ ReadByte(pages, mem, SegStart(1, 2) + 16) = 177

\* No loaded object has a lowest load address off the page boundary: the
\* mapping of its first segment fails.
LowestVaddrAligned ==
    \A o \in DOMAIN objects : objects[o].mem_range[1] % PageSize = 0

\* The name ends at the first NUL byte at or after its start.
NameToFirstNul(name) ==
    /\ \A j \in name.range[1]..(name.range[2] - 1) :
          ReadByte(pages, mem, name.map.addr + j) # 0
    /\ ReadByte(pages, mem, name.map.addr + name.range[2]) = 0

\* C34: Name::mapped(map, offset) yields the byte range from offset up to
\* but not including the first NUL byte at or after offset; if no NUL byte
\* is found within a window of 2048 bytes from offset, construction fails
\* fatally instead of returning a name: every name that was returned ends
\* at the first NUL byte, fewer than 2048 bytes after its start.
C34_NameWindow ==
    Len(applied) = 0
        => \A o \in DOMAIN objects : \A i \in DOMAIN objects[o].syms :
              /\ NameToFirstNul(objects[o].syms[i].name)
              /\ objects[o].syms[i].name.range[2] - objects[o].syms[i].name.range[1]
                    < NameWindow

\* Every name that was returned ends at the first NUL byte after its start,
\* however far that is.
NamesToFirstNul ==
    Len(applied) = 0
        => \A o \in DOMAIN objects : \A i \in DOMAIN objects[o].syms :
              NameToFirstNul(objects[o].syms[i].name)

\* A name of 2100 bytes was returned.
LongNameReturned ==
    /\ Len(objects) = 1
    /\ Len(objects[1].syms) = 2
    /\ objects[1].syms[2].name.range[2] - objects[1].syms[2].name.range[1] = NameWindow + 52

\* The load of a file with a name that has no NUL byte before the end of
\* the mapping panicked.
NoNulPanicked ==
    /\ phase = "Aborted"
    /\ last.op = "load_object_and_dependencies"
    /\ Len(disk["prog"].dynstr) = 64 - StrTabAddr

\* The trampoline ran on a buffer of n words from the stack pointer
\* old_rsp: n iterations, word i copied to [rsp + 8 * i] for i from n - 1
\* down to 0, with rsp = old_rsp - 8 * n, and nothing else stored.
Trampolined(c, old_rsp, n) ==
    /\ Len(c.copied) = n
    /\ \A j \in 1..n : c.copied[j] = n - j
    /\ c.rsp = old_rsp - 8 * n
    /\ DOMAIN c.frame = {c.rsp + 8 * i : i \in 0..(n - 1)}
    /\ \A i \in 0..(n - 1) : c.frame[c.rsp + 8 * i] = c.stack[i + 1]

\* C35: for every stack that build_stack can produce (length n even and at
\* least 6) the trampoline's copy loop terminates after exactly n
\* iterations, having copied word i of the buffer to [new rsp + 8 * i] for
\* every i from n - 1 down to 0 with new rsp = old rsp - 8 * n, so that the
\* word at the new stack pointer when control reaches the entry point is
\* argc; the loop is never entered with a word count of 0.
C35_Trampoline ==
    (phase = "Started" /\ last.op = "start")
        => /\ Len(cpu.stack) % 2 = 0
           /\ Len(cpu.stack) >= 6
           /\ Trampolined(cpu, StackTopPage * PageSize, Len(cpu.stack))
           /\ cpu.frame[cpu.rsp] = Len(last.arg.args)
           /\ cpu.rip # 0

\* The shortest stack, of six words, and one of ten words with two
\* arguments: argc is at the new stack pointer.
C35_Witness ==
    /\ phase = "Started"
    /\ last.op = "start"
    /\ Len(last.arg.args) = 2
    /\ cpu.copied = <<9, 8, 7, 6, 5, 4, 3, 2, 1, 0>>
    /\ cpu.rsp = StackTopPage * PageSize - 80
    /\ cpu.frame[cpu.rsp] = 2
    /\ cpu.frame[cpu.rsp + 8] = 28672

\* The stack of an executable started without argument, environment or
\* auxiliary vector has six words.
ShortestStack ==
    /\ phase = "Started"
    /\ last.op = "start"
    /\ Len(cpu.copied) = 6
    /\ cpu.frame[cpu.rsp] = 0

====
